---- MODULE Spec2Model ----
(***************************************************************************)
(* Trust and abuse-control core of the game server: the token-bucket rate  *)
(* limiter (server/src/security/rateLimiter.js), the session store         *)
(* (server/src/security/sessionStore.js) and the places of the connection  *)
(* layer (server/src/index.js) that call them.                             *)
(*                                                                         *)
(* Time is Date.now() in milliseconds.  Token levels are JavaScript        *)
(* numbers; the model keeps them exactly, as integers in units of          *)
(* 1/MsPerSecond token, so that elapsedSeconds * refillRate is             *)
(* elapsedMs * refillRate in these units (floating rounding is not         *)
(* modelled).  A level that is undefined or NaN is the flag nan of a       *)
(* bucket.  The statistics counters of the rate limiter are left out: no   *)
(* decision reads them.                                                    *)
(*                                                                         *)
(* SpecBucket  one TokenBucket, its methods called in any order            *)
(* SpecRL      one connection sending at any pace                          *)
(* SpecBan     concurrent connections, time passing while they wait        *)
(* SpecOp      one connection sending listed and unlisted opcodes          *)
(* SpecSess    the session store under the handlers that call it           *)
(*                                                                         *)
(* The connections of SpecRL, SpecBan and SpecOp carry no session token,   *)
(* so their handlers leave the session store alone.                        *)
(***************************************************************************)
EXTENDS Integers, Sequences, FiniteSets, TLC

VARIABLES
    now,        \* Date.now()
    ticks,      \* number of clock advances so far (bounds the exploration)
    tb,         \* a stand-alone TokenBucket
    tbRet,      \* the last call on tb: its arguments, its result, tb before and after
    conns,      \* connection layer: the connections accepted so far,
                \* <<[ip, open, closing]>>; a connection's player.id is its index
    accepted,   \* the last connection accepted by wss.on("connection")
    players,    \* RateLimiter.players: Map playerId -> PlayerRateLimitState
    ipBans,     \* RateLimiter.ipBans: Map ipAddress -> banEnd
    vcount,     \* per connection: checkLimit calls rejected for lack of tokens so far
    vlast,      \* per connection: time of the last such call
    vnogap,     \* per connection: each such call came within 30 s of the previous one
    vlevel,     \* per connection: escalationLevel returned by the last such call
    vprev,      \* per connection: escalationLevel returned by the one before it
    vaction,    \* per connection: action returned by the last such call
    vfirst,     \* per connection: its first checkLimit call, [opcode, ipBanned, allowed]
    banLog,     \* every IP ban set by an escalation to BAN: [ip, at, by]
    sessions,   \* SessionStore.sessions: Map token -> session
    userSessionMap,  \* SessionStore.userSessionMap: Map userId -> Set of tokens
    issuedTo,   \* the userId each token returned by crypto.randomUUID() was issued to
    sret,       \* the last call on the session store: its arguments and its result
    reported,   \* the tokens validateSession or refreshSession has reported invalid
    validationStats,  \* PacketValidator.validationStats: total, passed, failed, byOpcode
    vret,       \* the last validatePacket call: its arguments and what came of it
    sanit,      \* a string, a maximum length, and sanitizeString applied once and twice
    antiCheat,  \* the AntiCheatController: its analyzers' Maps and its own
    acret,      \* the last call on the controller: its arguments and its result
    acCalls,    \* number of calls on the controller so far (bounds the exploration)
    decays,     \* number of decayAllScores runs so far (bounds the exploration)
    nextDecay,  \* the time the decay timer fires next
    banHistory, \* the bans issued and not yet seen expired: [key, at]
    handlers,   \* index.js, wss.on("connection"): per connection, the closure's player,
                \* its socket, its timers and its handlers waiting at an await
    mret,       \* the last handler of index.js that ran: what it did, in order
    loginAttempts,  \* index.js: Map ip -> [count, firstAttempt] of checkLoginRateLimit
    userWebSocketMap,  \* SessionStore.userWebSocketMap: Map userId -> Set of sockets
    grants      \* per opcode, the times of the checkLimit calls answered allowed: true

rlVars == <<conns, accepted, players, ipBans, vcount, vlast, vnogap, vlevel, vprev,
           vaction, vfirst, banLog>>
tbVars == <<tb, tbRet>>
sessVars == <<sessions, userSessionMap, issuedTo, sret, reported>>
pvVars == <<validationStats, vret, sanit>>
acVars == <<antiCheat, acret, acCalls, decays, nextDecay, banHistory>>
chVars == <<handlers, mret, loginAttempts, userWebSocketMap, grants>>
vars == <<now, ticks, tbVars, rlVars, sessVars, pvVars, acVars, chVars>>

----------------------------------------------------------------------------
(* Bounds of the exploration *)

StartTime == 100000
MaxTicks == 2
MaxTime == 400000
MaxBucketTicks == 3
MaxAmount == 2
ConnIds == {1, 2}
IPs == {1, 2}
MaxSessTicks == 3
TokenIds == {1, 2}
UserIds == {1, 2}
MaxStrLen == 4
MaxCalls == 2
MaxAcTicks == 1
MaxDecays == 2
MaxBanCalls == 4

----------------------------------------------------------------------------
(* rateLimiter.js: constants *)

MsPerSecond == 1000
DEFAULT_BUCKET_SIZE == 60
DEFAULT_REFILL_RATE == 30
VIOLATION_DECAY_TIME == 30000
FREEZE_DURATION == 5000
BAN_DURATION == 300000
StaleThreshold == 300000

\* The entries of OPCODE_LIMITS the model sends.
OPCODE_LIMITS ==
    [ M |-> [bucketSize |-> 5,  refillRate |-> 1],
      AUTH |-> [bucketSize |-> 5, refillRate |-> 1],
      K |-> [bucketSize |-> 10, refillRate |-> 5],
      F |-> [bucketSize |-> 20, refillRate |-> 10] ]

ESCALATION_THRESHOLDS == [WARNING |-> 5, FREEZE |-> 15, DISCONNECT |-> 30, BAN |-> 50]
ESCALATION_LEVELS == [NONE |-> 0, WARNING |-> 1, FREEZE |-> 2, DISCONNECT |-> 3, BAN |-> 4]

Min(a, b) == IF a <= b THEN a ELSE b
Max(a, b) == IF a >= b THEN a ELSE b

----------------------------------------------------------------------------
(* class TokenBucket *)

\* new TokenBucket(maxTokens, refillRate) with numbers
NewTokenBucket(maxTokens, refillRate, t) ==
    [maxTokens |-> maxTokens, tokens |-> maxTokens * MsPerSecond,
     refillRate |-> refillRate, lastRefill |-> t, nan |-> FALSE]

\* new TokenBucket(undefined, undefined): tokens is undefined and becomes NaN at
\* the first refill; nan stands for both, the numeric fields are then unused
UndefinedTokenBucket(t) ==
    [maxTokens |-> 0, tokens |-> 0, refillRate |-> 0, lastRefill |-> t, nan |-> TRUE]

\* a refill that adds the tokens of the lapse and leaves lastRefill where it
\* was, so that the next refill adds them again
RefillAgain(b, t) ==
    [b EXCEPT !.tokens = IF b.nan THEN @
                         ELSE Min(b.maxTokens * MsPerSecond,
                                  b.tokens + (t - b.lastRefill) * b.refillRate)]

\* refill(): tokens = min(maxTokens, tokens + (now - lastRefill)/1000 * refillRate)
\* (a lapse that alone refills the whole bucket gives maxTokens; the product,
\* which exceeds 32 bits after a day, is not formed for it)
Refill(b, t) ==
    [b EXCEPT !.tokens = IF b.nan THEN @
                         ELSE IF b.refillRate > 0 /\ t - b.lastRefill > (b.maxTokens * MsPerSecond) \div b.refillRate
                         THEN b.maxTokens * MsPerSecond
                         ELSE Min(b.maxTokens * MsPerSecond,
                                  b.tokens + (t - b.lastRefill) * b.refillRate),
              !.lastRefill = t]

\* Consume that wants more tokens than the amount
ConsumeStrict(b, amount, t) ==
    LET r == Refill(b, t) IN
    IF ~r.nan /\ r.tokens > amount * MsPerSecond
    THEN [bucket |-> [r EXCEPT !.tokens = @ - amount * MsPerSecond], ok |-> TRUE]
    ELSE [bucket |-> r, ok |-> FALSE]

\* consume(amount): the bucket afterwards and the value returned
\* (NaN >= amount is false)
Consume(b, amount, t) ==
    LET r == Refill(b, t) IN
    IF ~r.nan /\ r.tokens >= amount * MsPerSecond
    THEN [bucket |-> [r EXCEPT !.tokens = @ - amount * MsPerSecond], ok |-> TRUE]
    ELSE [bucket |-> r, ok |-> FALSE]

\* getTokens(): the bucket afterwards; the value returned is its tokens
GetTokens(b, t) == Refill(b, t)

----------------------------------------------------------------------------
(* The configurations getBucket makes buckets of *)

DefaultConfig == [bucketSize |-> DEFAULT_BUCKET_SIZE, refillRate |-> DEFAULT_REFILL_RATE]

\* Property names every JavaScript object inherits from Object.prototype (some of
\* them): OPCODE_LIMITS[name] is then an inherited function or object, which is
\* truthy and has neither bucketSize nor refillRate.
ObjectPrototypeKeys == {"constructor", "toString", "valueOf", "__proto__"}
InheritedProperty == [inherited |-> TRUE]

\* new TokenBucket(config.bucketSize, config.refillRate)
BucketOf(config, t) ==
    IF "bucketSize" \in DOMAIN config
    THEN NewTokenBucket(config.bucketSize, config.refillRate, t)
    ELSE UndefinedTokenBucket(t)

BucketConfigs ==
    {OPCODE_LIMITS[o] : o \in DOMAIN OPCODE_LIMITS} \cup {DefaultConfig, InheritedProperty}
BucketDeltas == {100, 500, 1000}
NoCall == [op |-> "none"]

----------------------------------------------------------------------------
(* class PlayerRateLimitState *)

EmptyMap == [x \in {} |-> 0]
MapSet(m, k, v) == [x \in (DOMAIN m) \cup {k} |-> IF x = k THEN v ELSE m[x]]
MapDelete(m, k) == [x \in (DOMAIN m) \ {k} |-> m[x]]

NewPlayerState(playerId, ipAddress, t) ==
    [playerId |-> playerId, ipAddress |-> ipAddress, buckets |-> EmptyMap,
     violations |-> 0, lastViolation |-> 0,
     escalationLevel |-> ESCALATION_LEVELS.NONE,
     freezeUntil |-> 0, bannedUntil |-> 0, createdAt |-> t, lastActivity |-> t]

\* OPCODE_LIMITS[opcode] || { bucketSize: DEFAULT_BUCKET_SIZE, refillRate: DEFAULT_REFILL_RATE }
OpcodeConfig(opcode) ==
    IF opcode \in DOMAIN OPCODE_LIMITS THEN OPCODE_LIMITS[opcode]
    ELSE IF opcode \in ObjectPrototypeKeys THEN InheritedProperty
    ELSE DefaultConfig

\* getBucket(opcode): the state afterwards (the bucket is buckets[opcode])
GetBucket(s, opcode, t) ==
    IF opcode \in DOMAIN s.buckets THEN s
    ELSE LET config == OpcodeConfig(opcode) IN
         [s EXCEPT !.buckets = MapSet(@, opcode, BucketOf(config, t))]

\* isFrozen() that ends one millisecond early
IsFrozenLate(s, t) == t + 1 < s.freezeUntil

\* Escalate with each threshold compared by > instead of >=
EscalateLate(s, t) ==
    IF s.violations > ESCALATION_THRESHOLDS.BAN
    THEN [s EXCEPT !.escalationLevel = ESCALATION_LEVELS.BAN,
                   !.bannedUntil = t + BAN_DURATION]
    ELSE IF s.violations > ESCALATION_THRESHOLDS.DISCONNECT
    THEN [s EXCEPT !.escalationLevel = ESCALATION_LEVELS.DISCONNECT]
    ELSE IF s.violations > ESCALATION_THRESHOLDS.FREEZE
    THEN [s EXCEPT !.escalationLevel = ESCALATION_LEVELS.FREEZE,
                   !.freezeUntil = t + FREEZE_DURATION]
    ELSE IF s.violations > ESCALATION_THRESHOLDS.WARNING
    THEN [s EXCEPT !.escalationLevel = ESCALATION_LEVELS.WARNING]
    ELSE s

\* the escalation branch of addViolation, on the incremented count
Escalate(s, t) ==
    IF s.violations >= ESCALATION_THRESHOLDS.BAN
    THEN [s EXCEPT !.escalationLevel = ESCALATION_LEVELS.BAN,
                   !.bannedUntil = t + BAN_DURATION]
    ELSE IF s.violations >= ESCALATION_THRESHOLDS.DISCONNECT
    THEN [s EXCEPT !.escalationLevel = ESCALATION_LEVELS.DISCONNECT]
    ELSE IF s.violations >= ESCALATION_THRESHOLDS.FREEZE
    THEN [s EXCEPT !.escalationLevel = ESCALATION_LEVELS.FREEZE,
                   !.freezeUntil = t + FREEZE_DURATION]
    ELSE IF s.violations >= ESCALATION_THRESHOLDS.WARNING
    THEN [s EXCEPT !.escalationLevel = ESCALATION_LEVELS.WARNING]
    ELSE s

\* addViolation(): the state afterwards (the value returned is its escalationLevel)
AddViolation(s, t) ==
    LET decayed == IF t - s.lastViolation > VIOLATION_DECAY_TIME
                   THEN Max(0, s.violations - 1) ELSE s.violations
    IN Escalate([s EXCEPT !.violations = decayed + 1, !.lastViolation = t], t)

IsFrozen(s, t) == t < s.freezeUntil
IsBanned(s, t) == t < s.bannedUntil

\* decayViolations(): the state afterwards
DecayViolations(s, t) ==
    IF t - s.lastViolation > VIOLATION_DECAY_TIME * 2
    THEN LET v == Max(0, s.violations - 1) IN
         [s EXCEPT !.violations = v, !.lastViolation = t,
                   !.escalationLevel =
                       IF v < ESCALATION_THRESHOLDS.WARNING THEN ESCALATION_LEVELS.NONE
                       ELSE IF v < ESCALATION_THRESHOLDS.FREEZE THEN ESCALATION_LEVELS.WARNING
                       ELSE @]
    ELSE s

----------------------------------------------------------------------------
(* class RateLimiter *)

\* getPlayerState that leaves lastActivity as it is
GetPlayerStateIdle(pl, playerId, ipAddress, t) ==
    IF playerId \in DOMAIN pl THEN pl
    ELSE MapSet(pl, playerId, NewPlayerState(playerId, ipAddress, t))

\* getPlayerState(playerId, ipAddress): the players map afterwards
GetPlayerState(pl, playerId, ipAddress, t) ==
    LET s == IF playerId \in DOMAIN pl THEN pl[playerId]
             ELSE NewPlayerState(playerId, ipAddress, t)
    IN MapSet(pl, playerId, [s EXCEPT !.lastActivity = t])

\* the switch of checkLimit on the level addViolation returned
ActionOfLevel(level) ==
    IF level = ESCALATION_LEVELS.BAN THEN "ban"
    ELSE IF level = ESCALATION_LEVELS.DISCONNECT THEN "disconnect"
    ELSE IF level = ESCALATION_LEVELS.FREEZE THEN "freeze"
    ELSE IF level = ESCALATION_LEVELS.WARNING THEN "warning"
    ELSE "blocked"

\* checkLimit(playerId, ipAddress, opcode) at time t on the maps pl and bans:
\* the maps afterwards and the object returned
CheckLimit(pl, bans, playerId, ipAddress, opcode, t) ==
    IF ipAddress \in DOMAIN bans /\ t < bans[ipAddress]
    THEN [players |-> pl, ipBans |-> bans,
          ret |-> [allowed |-> FALSE, reason |-> "IP banned", action |-> "ban",
                   banExpires |-> bans[ipAddress]]]
    ELSE
    LET bans1 == MapDelete(bans, ipAddress)   \* an expired entry is deleted
        pl1 == GetPlayerState(pl, playerId, ipAddress, t)
        state == pl1[playerId]
    IN
    IF IsBanned(state, t)
    THEN [players |-> pl1, ipBans |-> bans1,
          ret |-> [allowed |-> FALSE, reason |-> "Player banned", action |-> "ban",
                   banExpires |-> state.bannedUntil]]
    ELSE IF IsFrozen(state, t)
    THEN [players |-> pl1, ipBans |-> bans1,
          ret |-> [allowed |-> FALSE, reason |-> "Player frozen", action |-> "freeze",
                   freezeExpires |-> state.freezeUntil]]
    ELSE
    LET decayed == DecayViolations(state, t)
        withBucket == GetBucket(decayed, opcode, t)
        c == Consume(withBucket.buckets[opcode], 1, t)
        consumed == [withBucket EXCEPT !.buckets[opcode] = GetTokens(c.bucket, t)]
    IN
    IF c.ok
    THEN [players |-> MapSet(pl1, playerId, consumed), ipBans |-> bans1,
          ret |-> [allowed |-> TRUE, reason |-> "", action |-> "",
                   tokensRemaining |-> consumed.buckets[opcode].tokens]]
    ELSE
    LET violated == AddViolation(consumed, t)
        level == violated.escalationLevel
    IN [players |-> MapSet(pl1, playerId, violated),
        ipBans |-> IF level = ESCALATION_LEVELS.BAN
                   THEN MapSet(bans1, ipAddress, violated.bannedUntil) ELSE bans1,
        ret |-> [allowed |-> FALSE, reason |-> "Rate limit exceeded",
                 action |-> ActionOfLevel(level), escalationLevel |-> level,
                 violations |-> violated.violations]]

\* removePlayer(playerId)
RemovePlayer(pl, playerId) == MapDelete(pl, playerId)

\* cleanup(): the players map afterwards
CleanupPlayers(pl, t) ==
    [p \in {q \in DOMAIN pl : ~(t - pl[q].lastActivity > StaleThreshold)} |-> pl[p]]

\* a sweep that drops every entry of ipBans
CleanupIpBansAll(bans, t) == EmptyMap

\* cleanup(): the ipBans map afterwards
CleanupIpBans(bans, t) ==
    [ip \in {a \in DOMAIN bans : ~(t > bans[a])} |-> bans[ip]]

\* isIpBanned(ipAddress): the value returned (an expired entry is deleted)
IsIpBanned(bans, ipAddress, t) ==
    ipAddress \in DOMAIN bans /\ ~(t >= bans[ipAddress])

----------------------------------------------------------------------------
(* sessionStore.js: class SessionStore, constructed with the default timeouts *)

DEFAULT_IDLE_TIMEOUT == 1800000
DEFAULT_ABSOLUTE_TIMEOUT == 86400000

\* a generator that returns the same token again
RepeatedUUID(n) == 1

\* crypto.randomUUID(): a token that no earlier call returned; n is the number of
\* earlier calls
RandomUUID(n) == n + 1

\* what a method leaves and returns
Store(ss, um, ret) == [sessions |-> ss, userSessionMap |-> um, ret |-> ret]

\* createSession(userId) with a userId that is not empty, token being the new token
CreateSession(ss, um, userId, token, t) ==
    LET session == [token |-> token, userId |-> userId, createdAt |-> t,
                    lastActivity |-> t, expiresAt |-> t + DEFAULT_ABSOLUTE_TIMEOUT]
        tokens == IF userId \in DOMAIN um THEN um[userId] ELSE {}
    IN Store(MapSet(ss, token, session), MapSet(um, userId, tokens \cup {token}),
             [success |-> TRUE, token |-> token, expiresAt |-> session.expiresAt])

\* userSessionMap after the tokens gone are taken out of the set of userId, and the
\* set is deleted when it is empty
ForgetTokens(um, userId, gone) ==
    IF userId \notin DOMAIN um THEN um
    ELSE IF um[userId] \ gone = {} THEN MapDelete(um, userId)
    ELSE MapSet(um, userId, um[userId] \ gone)

\* invalidateSession that leaves the emptied set of the user in userSessionMap
InvalidateSessionKeepSet(ss, um, token) ==
    IF token \notin DOMAIN ss
    THEN Store(ss, um, [success |-> FALSE, error |-> "Session not found"])
    ELSE Store(MapDelete(ss, token),
               IF ss[token].userId \in DOMAIN um
               THEN MapSet(um, ss[token].userId, um[ss[token].userId] \ {token}) ELSE um,
               [success |-> TRUE, error |-> ""])

\* invalidateSession(token)
InvalidateSession(ss, um, token) ==
    IF token \notin DOMAIN ss
    THEN Store(ss, um, [success |-> FALSE, error |-> "Session not found"])
    ELSE Store(MapDelete(ss, token), ForgetTokens(um, ss[token].userId, {token}),
               [success |-> TRUE, error |-> ""])

\* validateSession(token)
ValidateSession(ss, um, token, t) ==
    IF token \notin DOMAIN ss
    THEN Store(ss, um, [valid |-> FALSE, reason |-> "Session not found"])
    ELSE LET gone == InvalidateSession(ss, um, token) IN
    IF t > ss[token].expiresAt
    THEN Store(gone.sessions, gone.userSessionMap,
               [valid |-> FALSE, reason |-> "Session expired (absolute timeout)"])
    ELSE IF t - ss[token].lastActivity > DEFAULT_IDLE_TIMEOUT
    THEN Store(gone.sessions, gone.userSessionMap,
               [valid |-> FALSE, reason |-> "Session expired (idle timeout)"])
    ELSE Store(ss, um, [valid |-> TRUE, reason |-> ""])

\* refreshSession that also starts the absolute time again
RefreshSessionSliding(ss, um, token, t) ==
    IF token \notin DOMAIN ss
    THEN Store(ss, um, [success |-> FALSE, error |-> "Session not found"])
    ELSE LET gone == InvalidateSession(ss, um, token) IN
    IF t > ss[token].expiresAt
    THEN Store(gone.sessions, gone.userSessionMap,
               [success |-> FALSE, error |-> "Session expired (absolute timeout)"])
    ELSE IF t - ss[token].lastActivity > DEFAULT_IDLE_TIMEOUT
    THEN Store(gone.sessions, gone.userSessionMap,
               [success |-> FALSE, error |-> "Session expired (idle timeout)"])
    ELSE Store([ss EXCEPT ![token].lastActivity = t,
                          ![token].expiresAt = t + DEFAULT_ABSOLUTE_TIMEOUT], um,
               [success |-> TRUE, error |-> ""])

\* refreshSession(token)
RefreshSession(ss, um, token, t) ==
    IF token \notin DOMAIN ss
    THEN Store(ss, um, [success |-> FALSE, error |-> "Session not found"])
    ELSE LET gone == InvalidateSession(ss, um, token) IN
    IF t > ss[token].expiresAt
    THEN Store(gone.sessions, gone.userSessionMap,
               [success |-> FALSE, error |-> "Session expired (absolute timeout)"])
    ELSE IF t - ss[token].lastActivity > DEFAULT_IDLE_TIMEOUT
    THEN Store(gone.sessions, gone.userSessionMap,
               [success |-> FALSE, error |-> "Session expired (idle timeout)"])
    ELSE Store([ss EXCEPT ![token].lastActivity = t], um,
               [success |-> TRUE, error |-> ""])

\* invalidateUserSessions that forgets the set of the user and keeps the sessions
InvalidateUserSessionsMapOnly(ss, um, userId) ==
    IF userId \notin DOMAIN um \/ um[userId] = {}
    THEN Store(ss, um, [success |-> TRUE, count |-> 0])
    ELSE Store(ss, MapDelete(um, userId),
               [success |-> TRUE, count |-> Cardinality(um[userId])])

\* invalidateUserSessions(userId)
InvalidateUserSessions(ss, um, userId) ==
    IF userId \notin DOMAIN um \/ um[userId] = {}
    THEN Store(ss, um, [success |-> TRUE, count |-> 0])
    ELSE Store([tok \in DOMAIN ss \ um[userId] |-> ss[tok]], MapDelete(um, userId),
               [success |-> TRUE, count |-> Cardinality(um[userId])])

\* cleanupExpiredSessions()
CleanupExpiredSessions(ss, um, t) ==
    LET expired == {tok \in DOMAIN ss :
                       \/ t > ss[tok].expiresAt
                       \/ t - ss[tok].lastActivity > DEFAULT_IDLE_TIMEOUT}
        expiredOf(userId) == {tok \in expired : ss[tok].userId = userId}
        kept == {userId \in DOMAIN um :
                    expiredOf(userId) = {} \/ um[userId] \ expiredOf(userId) # {}}
    IN Store([tok \in DOMAIN ss \ expired |-> ss[tok]],
             [userId \in kept |-> um[userId] \ expiredOf(userId)],
             [success |-> TRUE, cleanedCount |-> Cardinality(expired)])

----------------------------------------------------------------------------
(* Packet validator (sessionStore.js): the JavaScript values it is handed *)

\* A JavaScript value is [kind, val]. The finite numbers of the model are the
\* integers and the two bounds -2*PI and 2*PI; val is the place of the number on
\* the line: 2k for the integer k, 13 for 2*PI (between 6 and 7), -13 for -2*PI.
\* Comparison, Math.min and Math.max are then those of the numbers themselves.
JsUndefined == [kind |-> "undefined", val |-> 0]
JsNull == [kind |-> "null", val |-> 0]
JsBoolean(b) == [kind |-> "boolean", val |-> b]
JsNumber(k) == [kind |-> "number", val |-> 2 * k]
JsNaN == [kind |-> "NaN", val |-> 0]
JsInfinity == [kind |-> "Infinity", val |-> 1]
JsString(s) == [kind |-> "string", val |-> s]
JsObject(name, skin) == [kind |-> "object", val |-> [name |-> name, skin |-> skin]]
JsArray(elems) == [kind |-> "array", val |-> elems]
\* an object no property of which can be read (a revoked Proxy): Array.isArray of
\* it, a read of one of its properties and a spread of it raise a TypeError
JsRevoked == [kind |-> "revoked", val |-> 0]
TwoPi == [kind |-> "number", val |-> 13]
MinusTwoPi == [kind |-> "number", val |-> 0 - 13]

TypeOf(v) ==
    CASE v.kind \in {"number", "NaN", "Infinity"} -> "number"
      [] v.kind \in {"null", "object", "array", "revoked"} -> "object"
      [] OTHER -> v.kind

\* !!v
Truthy(v) ==
    CASE v.kind \in {"undefined", "null", "NaN"} -> FALSE
      [] v.kind = "boolean" -> v.val
      [] v.kind = "number" -> v.val # 0
      [] v.kind = "string" -> v.val # <<>>
      [] OTHER -> TRUE

\* data[i] of an array: undefined past its end
At(elems, i) == IF i \in DOMAIN elems THEN elems[i] ELSE JsUndefined

MathMin(a, b) == IF a.val <= b.val THEN a ELSE b
MathMax(a, b) == IF a.val >= b.val THEN a ELSE b

\* the characters /[<>\"'&]/ removes, those /[\x00-\x1F\x7F]/ removes, and those
\* String.prototype.trim strips from both ends
HtmlChars == {"<", ">", "\"", "'", "&"}
ControlChars == {"\t", "\n"}
Whitespace == {" ", "\t", "\n"}

\* str.slice(0, end)
Slice(s, end) ==
    IF end >= 0 THEN SubSeq(s, 1, Min(Len(s), end))
    ELSE SubSeq(s, 1, Max(0, Len(s) + end))

\* str.replace(/[...]/g, '')
Remove(s, chars) == LET Kept(c) == c \notin chars IN SelectSeq(s, Kept)

\* str.trim()
Trim(s) ==
    LET solid == {i \in DOMAIN s : s[i] \notin Whitespace} IN
    IF solid = {} THEN <<>>
    ELSE SubSeq(s, CHOOSE i \in solid : \A j \in solid : i <= j,
                   CHOOSE i \in solid : \A j \in solid : i >= j)

\* sanitizeString that trims before it removes characters
SanitizeStringTrimFirst(str, maxLength) ==
    IF TypeOf(str) # "string" THEN JsNull
    ELSE JsString(Remove(Remove(Trim(Slice(str.val, maxLength)), HtmlChars),
                         ControlChars))

\* sanitizeString(str, maxLength)
SanitizeString(str, maxLength) ==
    IF TypeOf(str) # "string" THEN JsNull
    ELSE JsString(Trim(Remove(Remove(Slice(str.val, maxLength), HtmlChars),
                              ControlChars)))

\* isValidNumber(val)
IsValidNumber(val) == val.kind = "number"

\* clampNumber that answers max for every valid number
ClampNumberToMax(val, min, max) ==
    IF ~IsValidNumber(val) THEN JsNull ELSE max

\* clampNumber(val, min, max)
ClampNumber(val, min, max) ==
    IF ~IsValidNumber(val) THEN JsNull ELSE MathMax(min, MathMin(max, val))

(* Packet validator (sessionStore.js): the schemas *)

MAX_NAME_LENGTH == 15
MAX_CHAT_LENGTH == 100
MAX_CLAN_NAME_LENGTH == 7
MAX_PARTY_CODE_LENGTH == 10
MAX_USERNAME_LENGTH == 16
MAX_PASSWORD_LENGTH == 30
MAX_DISPLAY_NAME_LENGTH == 20

OPCODES ==
    [SPAWN |-> "M", MOVE_DIR |-> "9", ATTACK |-> "F", AUTO_GATHER |-> "K",
     DIRECTION |-> "D", SELECT_ITEM |-> "z", STORE |-> "c", UPGRADE |-> "H",
     CHAT |-> "6", PING |-> "0", PERF_DATA |-> "p", CREATE_CLAN |-> "L",
     LEAVE_CLAN |-> "N", JOIN_CLAN_REQUEST |-> "b", CLAN_MANAGE |-> "P",
     MAP_PING |-> "S", RESET_MOVE |-> "e", TELEPORT |-> "TP", AUTH |-> "AUTH",
     REGISTER |-> "REGISTER", CREATE_PARTY |-> "CREATE_PARTY",
     JOIN_PARTY |-> "JOIN_PARTY"]

VALID_OPCODES == {OPCODES[k] : k \in DOMAIN OPCODES}

\* what a schema's validate comes to: a result object, or an exception
Valid(sanitizedData) ==
    [valid |-> TRUE, reason |-> "", sanitizedData |-> sanitizedData, thrown |-> FALSE]
Invalid(reason) ==
    [valid |-> FALSE, reason |-> reason, sanitizedData |-> JsUndefined, thrown |-> FALSE]
TypeError ==
    [valid |-> FALSE, reason |-> "TypeError", sanitizedData |-> JsUndefined,
     thrown |-> TRUE]

\* !Array.isArray(data) || data.length < least
TooShort(data, least) == data.kind # "array" \/ Len(data.val) < least

\* { ...spawnData }: the own properties of an object, none of null or undefined
Spread(spawnData) ==
    IF spawnData.kind = "object" THEN spawnData
    ELSE JsObject(JsUndefined, JsUndefined)

ValidateSPAWN(data) ==
    IF data.kind = "revoked" THEN TypeError
    ELSE IF TooShort(data, 1) THEN Invalid("Invalid spawn data structure")
    ELSE
    LET spawnData == data.val[1] IN
    IF spawnData.kind \notin {"null", "undefined"} /\ TypeOf(spawnData) # "object"
    THEN Invalid("Spawn data must be object or null")
    ELSE IF spawnData.kind = "revoked" THEN TypeError
    ELSE
    LET sanitized == Spread(spawnData)
        sanitizedName == SanitizeString(sanitized.val.name, MAX_NAME_LENGTH)
        name == IF sanitized.val.name # JsUndefined THEN sanitizedName
                ELSE sanitized.val.name
        skin == IF sanitized.val.skin = JsUndefined THEN sanitized.val.skin
                ELSE IF ~IsValidNumber(sanitized.val.skin) THEN JsNumber(0)
                ELSE ClampNumber(sanitized.val.skin, JsNumber(0), JsNumber(9))
    IN IF sanitized.val.name # JsUndefined /\ sanitizedName = JsNull
       THEN Invalid("Invalid name format")
       ELSE Valid(JsArray(<<JsObject(name, skin)>>))

ValidateMOVE_DIR(data) ==
    IF data.kind = "revoked" THEN TypeError
    ELSE IF data.kind # "array" THEN Invalid("Move direction must be array")
    ELSE
    LET dir == At(data.val, 1) IN
    IF dir # JsUndefined /\ dir # JsNull /\ ~IsValidNumber(dir)
    THEN Invalid("Move direction must be number or null")
    ELSE IF IsValidNumber(dir)
    THEN Valid(JsArray(<<ClampNumber(dir, MinusTwoPi, TwoPi)>>))
    ELSE Valid(JsArray(<<dir>>))

ValidateATTACK(data) ==
    IF data.kind = "revoked" THEN TypeError
    ELSE IF data.kind # "array" THEN Invalid("Attack data must be array")
    ELSE
    LET mouseState == At(data.val, 1)
        direction == At(data.val, 2)
    IN
    IF mouseState # JsUndefined /\ mouseState # JsNumber(0) /\ mouseState # JsNumber(1)
    THEN Invalid("Invalid mouse state")
    ELSE IF direction # JsUndefined /\ ~IsValidNumber(direction)
    THEN Invalid("Direction must be number")
    ELSE IF IsValidNumber(direction)
    THEN Valid(JsArray(<<mouseState, ClampNumber(direction, MinusTwoPi, TwoPi)>>))
    ELSE Valid(JsArray(<<mouseState>>))

ValidateAUTO_GATHER(data) ==
    IF data.kind = "revoked" THEN TypeError
    ELSE IF data.kind # "array" THEN Invalid("Auto gather data must be array")
    ELSE Valid(JsArray(<<JsBoolean(Truthy(At(data.val, 1)))>>))

ValidateDIRECTION(data) ==
    IF data.kind = "revoked" THEN TypeError
    ELSE IF TooShort(data, 1) THEN Invalid("Direction data must be array with value")
    ELSE
    LET dir == data.val[1] IN
    IF ~IsValidNumber(dir) THEN Invalid("Direction must be valid number")
    ELSE Valid(JsArray(<<ClampNumber(dir, MinusTwoPi, TwoPi)>>))

ValidateSELECT_ITEM(data) ==
    IF data.kind = "revoked" THEN TypeError
    ELSE IF TooShort(data, 1) THEN Invalid("Select item data must be array")
    ELSE
    LET itemId == data.val[1]
        isWeapon == At(data.val, 2)
        clampedId == ClampNumber(itemId, JsNumber(0), JsNumber(100))
    IN
    IF ~IsValidNumber(itemId) THEN Invalid("Item ID must be number")
    ELSE IF isWeapon # JsUndefined
    THEN Valid(JsArray(<<clampedId, JsBoolean(Truthy(isWeapon))>>))
    ELSE Valid(JsArray(<<clampedId>>))

ValidateSTORE(data) ==
    IF data.kind = "revoked" THEN TypeError
    ELSE IF TooShort(data, 2) THEN Invalid("Store data must have type and id")
    ELSE
    LET type == data.val[1]
        id == data.val[2]
        index == At(data.val, 3)
        clampedId == ClampNumber(id, JsNumber(0), JsNumber(100))
    IN
    IF type # JsNumber(0) /\ type # JsNumber(1) THEN Invalid("Invalid store type")
    ELSE IF ~IsValidNumber(id) THEN Invalid("Store ID must be number")
    ELSE IF index # JsUndefined
    THEN Valid(JsArray(<<type, clampedId, JsBoolean(Truthy(index))>>))
    ELSE Valid(JsArray(<<type, clampedId>>))

\* the decimal digits and the number they spell
DigitChars == <<"0", "1", "2", "3", "4", "5", "6", "7", "8", "9">>
RECURSIVE DigitsValue(_)
DigitsValue(s) ==
    IF s = <<>> THEN 0
    ELSE 10 * DigitsValue(SubSeq(s, 1, Len(s) - 1))
         + (CHOOSE d \in 0..9 : DigitChars[d + 1] = s[Len(s)])

\* parseInt(str, 10): leading white space is skipped, then a sign, then the
\* longest run of digits; NaN when there is none
ParseInt(s) ==
    LET solid == {i \in DOMAIN s : s[i] \notin Whitespace}
        first == IF solid = {} THEN Len(s) + 1
                 ELSE CHOOSE i \in solid : \A j \in solid : i <= j
        signed == first \in DOMAIN s /\ s[first] \in {"+", "-"}
        start == IF signed THEN first + 1 ELSE first
        isDigit(i) == i \in DOMAIN s /\ \E d \in DOMAIN DigitChars : DigitChars[d] = s[i]
        stops == {i \in start..(Len(s) + 1) : ~isDigit(i)}
        stop == CHOOSE i \in stops : \A j \in stops : i <= j
        magnitude == DigitsValue(SubSeq(s, start, stop - 1))
    IN IF stop = start THEN JsNaN
       ELSE IF signed /\ s[first] = "-" THEN JsNumber(0 - magnitude)
       ELSE JsNumber(magnitude)

ValidateUPGRADE(data) ==
    IF data.kind = "revoked" THEN TypeError
    ELSE IF TooShort(data, 1) THEN Invalid("Upgrade data must contain item")
    ELSE
    LET item == data.val[1]
        parsed == IF TypeOf(item) = "string" THEN ParseInt(item.val) ELSE item
    IN
    IF ~IsValidNumber(item) /\ TypeOf(item) # "string"
    THEN Invalid("Upgrade item must be number or string")
    ELSE IF ~IsValidNumber(parsed) THEN Invalid("Invalid upgrade item value")
    ELSE Valid(JsArray(<<ClampNumber(parsed, JsNumber(0), JsNumber(100))>>))

\* the schemas of one string that must not be empty after sanitizing: CHAT,
\* CREATE_CLAN and JOIN_PARTY
ValidateText(data, maxLength, missing, notString, invalid) ==
    IF data.kind = "revoked" THEN TypeError
    ELSE IF TooShort(data, 1) THEN Invalid(missing)
    ELSE
    LET text == data.val[1]
        sanitized == SanitizeString(text, maxLength)
    IN
    IF TypeOf(text) # "string" THEN Invalid(notString)
    ELSE IF sanitized = JsNull \/ Len(sanitized.val) < 1 THEN Invalid(invalid)
    ELSE Valid(JsArray(<<sanitized>>))

ValidateCHAT(data) ==
    ValidateText(data, MAX_CHAT_LENGTH, "Chat data must contain message",
                 "Chat message must be string", "Invalid chat message")

\* PING, LEAVE_CLAN, MAP_PING, RESET_MOVE, CREATE_PARTY: data is handed back as it is
ValidatePING(data) == Valid(data)

ValidatePERF_DATA(data) ==
    IF data.kind = "revoked" THEN TypeError
    ELSE IF data.kind # "array" THEN Invalid("Perf data must be array")
    ELSE
    LET cps == At(data.val, 1)
        ping == At(data.val, 2)
    IN Valid(JsArray(<<IF IsValidNumber(cps)
                       THEN ClampNumber(cps, JsNumber(0), JsNumber(100))
                       ELSE JsNumber(0),
                       IF IsValidNumber(ping)
                       THEN ClampNumber(ping, JsNumber(0 - 1), JsNumber(9999))
                       ELSE JsNumber(0 - 1)>>))

ValidateCREATE_CLAN(data) ==
    ValidateText(data, MAX_CLAN_NAME_LENGTH, "Clan name required",
                 "Clan name must be string", "Invalid clan name")

ValidateJOIN_CLAN_REQUEST(data) ==
    IF data.kind = "revoked" THEN TypeError
    ELSE IF TooShort(data, 1) THEN Invalid("Clan identifier required")
    ELSE
    LET clanId == data.val[1] IN
    IF TypeOf(clanId) = "string"
    THEN Valid(JsArray(<<SanitizeString(clanId, MAX_CLAN_NAME_LENGTH)>>))
    ELSE IF IsValidNumber(clanId) THEN Valid(JsArray(<<clanId>>))
    ELSE Invalid("Invalid clan identifier")

ValidateCLAN_MANAGE(data) ==
    IF data.kind = "revoked" THEN TypeError
    ELSE IF TooShort(data, 1) THEN Invalid("Clan manage requires target")
    ELSE
    LET targetSid == data.val[1]
        joinDecision == At(data.val, 2)
    IN
    IF ~IsValidNumber(targetSid) /\ targetSid # JsUndefined
    THEN Invalid("Target SID must be number")
    ELSE IF joinDecision # JsUndefined
    THEN Valid(JsArray(<<targetSid, JsBoolean(Truthy(joinDecision))>>))
    ELSE Valid(JsArray(<<targetSid>>))

ValidateTELEPORT(data) ==
    IF data.kind = "revoked" THEN TypeError
    ELSE IF TooShort(data, 2) THEN Invalid("Teleport requires x and y")
    ELSE
    LET x == data.val[1]
        y == data.val[2]
    IN
    IF ~IsValidNumber(x) \/ ~IsValidNumber(y)
    THEN Invalid("Teleport coordinates must be numbers")
    ELSE Valid(JsArray(<<ClampNumber(x, JsNumber(0), JsNumber(20000)),
                         ClampNumber(y, JsNumber(0), JsNumber(20000))>>))

\* the username and password checks AUTH and REGISTER share; "" when both pass
CredentialsFault(username, password) ==
    LET sanitizedUsername == SanitizeString(username, MAX_USERNAME_LENGTH) IN
    IF TypeOf(username) # "string" THEN "Username must be string"
    ELSE IF TypeOf(password) # "string" THEN "Password must be string"
    ELSE IF sanitizedUsername = JsNull \/ Len(sanitizedUsername.val) < 4
    THEN "Invalid username"
    ELSE IF Len(password.val) < 8 \/ Len(password.val) > MAX_PASSWORD_LENGTH
    THEN "Invalid password length"
    ELSE ""

ValidateAUTH(data) ==
    IF data.kind = "revoked" THEN TypeError
    ELSE IF TooShort(data, 2) THEN Invalid("Auth requires username and password")
    ELSE
    LET username == data.val[1]
        password == data.val[2]
    IN
    IF CredentialsFault(username, password) # ""
    THEN Invalid(CredentialsFault(username, password))
    ELSE Valid(JsArray(<<SanitizeString(username, MAX_USERNAME_LENGTH), password>>))

\* email.toLowerCase(): "A" is the upper-case letter of the model's alphabet
ToLowerCase(s) == [i \in DOMAIN s |-> IF s[i] = "A" THEN "a" ELSE s[i]]

\* /^[^\s@]+@[^\s@]+\.[^\s@]+$/.test(s)
EmailRegexTest(s) ==
    /\ \A i \in DOMAIN s : s[i] \notin Whitespace
    /\ \E at \in DOMAIN s :
          /\ s[at] = "@"
          /\ \A i \in DOMAIN s : s[i] = "@" => i = at
          /\ at > 1
          /\ \E dot \in DOMAIN s : s[dot] = "." /\ dot > at + 1 /\ dot < Len(s)

ValidateREGISTER(data) ==
    IF data.kind = "revoked" THEN TypeError
    ELSE IF TooShort(data, 4)
    THEN Invalid("Register requires username, password, displayName, and email")
    ELSE
    LET username == data.val[1]
        password == data.val[2]
        displayName == data.val[3]
        email == data.val[4]
        sanitizedUsername == SanitizeString(username, MAX_USERNAME_LENGTH)
        emailTrimmed == Trim(ToLowerCase(email.val))
        sanitizedDisplay == SanitizeString(displayName, MAX_DISPLAY_NAME_LENGTH)
    IN
    IF TypeOf(username) # "string" THEN Invalid("Username must be string")
    ELSE IF TypeOf(password) # "string" THEN Invalid("Password must be string")
    ELSE IF TypeOf(email) # "string" THEN Invalid("Email must be string")
    ELSE IF CredentialsFault(username, password) # ""
    THEN Invalid(CredentialsFault(username, password))
    ELSE IF emailTrimmed = <<>> \/ ~EmailRegexTest(emailTrimmed)
    THEN Invalid("Invalid email format")
    ELSE Valid(JsArray(<<sanitizedUsername, password,
                         IF TypeOf(displayName) = "string" /\ Truthy(sanitizedDisplay)
                         THEN sanitizedDisplay ELSE sanitizedUsername,
                         JsString(emailTrimmed)>>))

ValidateJOIN_PARTY(data) ==
    ValidateText(data, MAX_PARTY_CODE_LENGTH, "Party code required",
                 "Party code must be string", "Invalid party code")

\* schemas[opcode].validate(data, ctx), for an opcode of the catalogue
SchemaValidate(opcode, data) ==
    CASE opcode = OPCODES.SPAWN -> ValidateSPAWN(data)
      [] opcode = OPCODES.MOVE_DIR -> ValidateMOVE_DIR(data)
      [] opcode = OPCODES.ATTACK -> ValidateATTACK(data)
      [] opcode = OPCODES.AUTO_GATHER -> ValidateAUTO_GATHER(data)
      [] opcode = OPCODES.DIRECTION -> ValidateDIRECTION(data)
      [] opcode = OPCODES.SELECT_ITEM -> ValidateSELECT_ITEM(data)
      [] opcode = OPCODES.STORE -> ValidateSTORE(data)
      [] opcode = OPCODES.UPGRADE -> ValidateUPGRADE(data)
      [] opcode = OPCODES.CHAT -> ValidateCHAT(data)
      [] opcode = OPCODES.PERF_DATA -> ValidatePERF_DATA(data)
      [] opcode = OPCODES.CREATE_CLAN -> ValidateCREATE_CLAN(data)
      [] opcode = OPCODES.JOIN_CLAN_REQUEST -> ValidateJOIN_CLAN_REQUEST(data)
      [] opcode = OPCODES.CLAN_MANAGE -> ValidateCLAN_MANAGE(data)
      [] opcode = OPCODES.TELEPORT -> ValidateTELEPORT(data)
      [] opcode = OPCODES.AUTH -> ValidateAUTH(data)
      [] opcode = OPCODES.REGISTER -> ValidateREGISTER(data)
      [] opcode = OPCODES.JOIN_PARTY -> ValidateJOIN_PARTY(data)
      [] OTHER -> ValidatePING(data)

----------------------------------------------------------------------------
(* Packet validator (sessionStore.js): PacketValidator *)

\* new PacketValidator()
NewValidationStats == [total |-> 0, passed |-> 0, failed |-> 0, byOpcode |-> EmptyMap]

\* validationStats.byOpcode[opcode] is truthy: an own entry, or a property every
\* object inherits
HasCounts(byOpcode, opcode) ==
    opcode \in DOMAIN byOpcode \/ opcode \in ObjectPrototypeKeys

\* validationStats.byOpcode[opcode][field]++: on an own entry; on an inherited
\* property the count lands on the inherited object and byOpcode keeps its entries
CountUp(byOpcode, opcode, field) ==
    IF opcode \in DOMAIN byOpcode
    THEN [byOpcode EXCEPT ![opcode][field] = @ + 1]
    ELSE byOpcode

\* its outcome: the statistics afterwards and what the caller receives
Outcome(stats, byOpcode, field, ret) ==
    [stats |-> [stats EXCEPT !.total = @ + 1, ![field] = @ + 1,
                             !.byOpcode = CountUp(byOpcode, ret.opcode, field)],
     ret |-> ret.result]

\* validatePacket without its try and catch: what validate raises goes on to the caller
ValidatePacketNoCatch(stats, opcode, data) ==
    LET entered == IF HasCounts(stats.byOpcode, opcode) THEN stats.byOpcode
                   ELSE MapSet(stats.byOpcode, opcode, [passed |-> 0, failed |-> 0])
        result == SchemaValidate(opcode, data)
    IN
    IF opcode \notin VALID_OPCODES
    THEN Outcome(stats, entered, "failed",
                 [opcode |-> opcode, result |-> Invalid("Unknown opcode")])
    ELSE Outcome(stats, entered, IF result.valid THEN "passed" ELSE "failed",
                 [opcode |-> opcode, result |-> result])

\* validatePacket(opcode, data, context)
ValidatePacket(stats, opcode, data) ==
    LET entered == IF HasCounts(stats.byOpcode, opcode) THEN stats.byOpcode
                   ELSE MapSet(stats.byOpcode, opcode, [passed |-> 0, failed |-> 0])
        result == SchemaValidate(opcode, data)
    IN
    IF opcode \notin VALID_OPCODES
    THEN Outcome(stats, entered, "failed",
                 [opcode |-> opcode, result |-> Invalid("Unknown opcode")])
    ELSE IF result.thrown
    THEN Outcome(stats, entered, "failed",
                 [opcode |-> opcode,
                  result |-> Invalid("Validation error: " \o result.reason)])
    ELSE Outcome(stats, entered, IF result.valid THEN "passed" ELSE "failed",
                 [opcode |-> opcode, result |-> result])

----------------------------------------------------------------------------
(* antiCheat/index.js: constants *)

SUSPICION_THRESHOLDS == [WARNING |-> 50, KICK |-> 70, BAN |-> 90]
SUSPICION_DECAY_INTERVAL == 30000
LOG_RETENTION_COUNT == 100
\* banPlayer: 24 * 60 * 60 * 1000
BanLifetime == 24 * 60 * 60 * 1000

\* Scores are fractions: 0.95 of a score, 0.3 of a component.  A score s is
\* held as the integer s * ScoreUnit, which is exact for every score that went
\* through at most MaxDecays decays and one weighting
ScoreUnit == 2 * 20 * (20 ^ MaxDecays)
Points(n) == n * ScoreUnit

\* SUSPICION_DECAY_RATE = 0.95
Decayed(score) == (score * 19) \div 20

RECURSIVE SeqSum(_)
SeqSum(s) == IF s = <<>> THEN 0 ELSE Head(s) + SeqSum(Tail(s))

Squares(s) == [i \in DOMAIN s |-> s[i] * s[i]]
Abs(x) == IF x < 0 THEN -x ELSE x

----------------------------------------------------------------------------
(* antiCheat/telemetry.js: class TelemetryAnalyzer *)

TIMING_HISTORY_SIZE == 50
MIN_TIMING_SAMPLES == 10
BOT_STDDEV_THRESHOLD == 50
MAX_ATTACKS_PER_SECOND == 15
PERFECT_INTERVAL_TOLERANCE == 5
PERFECT_INTERVAL_COUNT_THRESHOLD == 8

\* getPlayerData(playerId): the record made for a player that has none
NewTelemetryData(t) ==
    [inputTimings |-> <<>>, attackTimings |-> <<>>, lastInputTime |-> 0,
     lastAttackTime |-> 0, suspicionScore |-> 0, violations |-> <<>>,
     attacksInWindow |-> 0, windowStart |-> t]

TelemetryData(m, playerId, t) ==
    IF playerId \in DOMAIN m THEN m[playerId] ELSE NewTelemetryData(t)

\* timings.push(interval), and shift() beyond TIMING_HISTORY_SIZE
PushTiming(timings, interval) ==
    LET pushed == Append(timings, interval)
    IN IF Len(pushed) > TIMING_HISTORY_SIZE THEN Tail(pushed) ELSE pushed

\* recordInput(playerId, timestamp) at time t: the map afterwards
TelemetryRecordInput(m, playerId, timestamp, t) ==
    LET data == TelemetryData(m, playerId, t)
    IN MapSet(m, playerId,
              [data EXCEPT
                 !.inputTimings = IF data.lastInputTime > 0
                                  THEN PushTiming(@, timestamp - data.lastInputTime)
                                  ELSE @,
                 !.lastInputTime = timestamp])

\* recordAttack(playerId, timestamp) at time t: the map afterwards
TelemetryRecordAttack(m, playerId, timestamp, t) ==
    LET data == TelemetryData(m, playerId, t)
        restart == t - data.windowStart >= 1000
    IN MapSet(m, playerId,
              [data EXCEPT
                 !.attackTimings = IF data.lastAttackTime > 0
                                   THEN PushTiming(@, timestamp - data.lastAttackTime)
                                   ELSE @,
                 !.lastAttackTime = timestamp,
                 !.windowStart = IF restart THEN t ELSE @,
                 !.attacksInWindow = IF restart THEN 1 ELSE @ + 1])

SeqMin(s) == CHOOSE x \in {s[i] : i \in DOMAIN s} : \A i \in DOMAIN s : x <= s[i]
SeqMax(s) == CHOOSE x \in {s[i] : i \in DOMAIN s} : \A i \in DOMAIN s : x >= s[i]

\* calculateStandardDeviation(values) is sqrt(Dispersion(values)) / Len(values):
\* n * sum(v^2) - sum(v)^2 is n^2 times the variance, and is the same for the
\* values less their minimum
Dispersion(values) ==
    LET least == SeqMin(values)
        v == [i \in DOMAIN values |-> values[i] - least]
    IN Len(values) * SeqSum(Squares(v)) - SeqSum(v) * SeqSum(v)

\* calculateStandardDeviation(values) < BOT_STDDEV_THRESHOLD.  Of fewer than two
\* values the deviation is Infinity; of at most 50 values that span r it is at
\* least r / 10, so values spanning 500 or more need no arithmetic
StdDevBelowThreshold(values) ==
    /\ Len(values) >= 2
    /\ SeqMax(values) - SeqMin(values) < 10 * BOT_STDDEV_THRESHOLD
    /\ Dispersion(values)
          < BOT_STDDEV_THRESHOLD * BOT_STDDEV_THRESHOLD * Len(values) * Len(values)

\* Math.round(weight * severity), severity = max(0, (50 - stdDev) / 50), for a
\* deviation below 50 and a weight that is a multiple of 5: the largest k with
\* k <= weight * severity + 1/2, that is with
\* (weight / 5) * stdDev <= 10 * weight + 5 - 10 * k, where stdDev is
\* sqrt(dispersion) / n
RoundedOf(weight, dispersion, n) ==
    CHOOSE k \in 0..weight :
       /\ (weight \div 5) * (weight \div 5) * dispersion
             <= (10 * weight + 5 - 10 * k) * (10 * weight + 5 - 10 * k) * n * n
       /\ \A j \in (k + 1)..weight :
             (weight \div 5) * (weight \div 5) * dispersion
                > (10 * weight + 5 - 10 * j) * (10 * weight + 5 - 10 * j) * n * n

RoundedSeverity(weight, values) == RoundedOf(weight, Dispersion(values), Len(values))

\* detectPerfectIntervals(timings) returns a detection
DetectPerfectIntervals(timings) ==
    /\ Len(timings) >= PERFECT_INTERVAL_COUNT_THRESHOLD
    /\ LET recentTimings == SubSeq(timings,
                                   Len(timings) - PERFECT_INTERVAL_COUNT_THRESHOLD + 1,
                                   Len(timings))
           perfect == {i \in DOMAIN recentTimings :
                         Abs(recentTimings[i] - recentTimings[1])
                            <= PERFECT_INTERVAL_TOLERANCE}
       IN Cardinality(perfect) >= PERFECT_INTERVAL_COUNT_THRESHOLD

\* analyzePlayer: what one list of timings adds to the score, and the violations
\* it pushes
TimingFindings(timings, weight, perfectScore, consistent, perfect) ==
    IF Len(timings) < MIN_TIMING_SAMPLES THEN [score |-> 0, violations |-> <<>>]
    ELSE LET bot == StdDevBelowThreshold(timings)
             exact == DetectPerfectIntervals(timings)
         IN [score |-> (IF bot THEN RoundedSeverity(weight, timings) ELSE 0)
                       + (IF exact THEN perfectScore ELSE 0),
             violations |-> (IF bot THEN <<consistent>> ELSE <<>>)
                            \o (IF exact THEN <<perfect>> ELSE <<>>)]

\* analyzePlayer: what the attack rate adds
RateFindings(attacksInWindow) ==
    IF attacksInWindow > MAX_ATTACKS_PER_SECOND
    THEN [score |-> Min(40, (attacksInWindow - MAX_ATTACKS_PER_SECOND) * 5),
          violations |-> <<"EXCESSIVE_ATTACK_RATE">>]
    ELSE [score |-> 0, violations |-> <<>>]

\* analyzePlayer: the results of a player's data
TelemetryResults(data) ==
    [suspicionScore |->
         TimingFindings(data.inputTimings, 30, 25, "CONSISTENT_INPUT_TIMING",
                        "PERFECT_INPUT_INTERVALS").score
         + TimingFindings(data.attackTimings, 35, 30, "CONSISTENT_ATTACK_TIMING",
                          "PERFECT_ATTACK_INTERVALS").score
         + RateFindings(data.attacksInWindow).score,
     violations |->
         TimingFindings(data.inputTimings, 30, 25, "CONSISTENT_INPUT_TIMING",
                        "PERFECT_INPUT_INTERVALS").violations
         \o TimingFindings(data.attackTimings, 35, 30, "CONSISTENT_ATTACK_TIMING",
                           "PERFECT_ATTACK_INTERVALS").violations
         \o RateFindings(data.attacksInWindow).violations]

\* analyzePlayer(playerId) at time t: the map afterwards and the results returned
\* (the results are the one member of a set, so that they are worked out once)
TelemetryAnalyzePlayer(m, playerId, t) ==
    CHOOSE r \in {[map |-> MapSet(m, playerId,
                                  [TelemetryData(m, playerId, t) EXCEPT
                                     !.suspicionScore = results.suspicionScore,
                                     !.violations = results.violations]),
                   results |-> results] :
                     results \in {TelemetryResults(TelemetryData(m, playerId, t))}} : TRUE

----------------------------------------------------------------------------
(* antiCheat/movement.js: class MovementValidator *)

POSITION_HISTORY_SIZE == 20
TELEPORT_THRESHOLD_MULTIPLIER == 15
MAX_SPEED_SAMPLES == 10
WALL_BYPASS_CHECK_SAMPLES == 5
\* config.playerScale || 35
PlayerScale == 35
\* speeds are held in units of 1/10000 pixel per millisecond, rounded down
SpeedUnit == 10000

NoPosition == [none |-> TRUE]

\* the players handed to the validators: what the code reads of them
PlainPlayer(id) == [id |-> id, isAdmin |-> FALSE, teleportClickMode |-> FALSE, wood |-> 0]
AdminPlayer(id) == [id |-> id, isAdmin |-> TRUE, teleportClickMode |-> FALSE, wood |-> 0]
ClickPlayer(id) == [id |-> id, isAdmin |-> FALSE, teleportClickMode |-> TRUE, wood |-> 0]

NewMovementData ==
    [positionHistory |-> <<>>, speedHistory |-> <<>>, lastPosition |-> NoPosition,
     lastUpdateTime |-> 0, suspicionScore |-> 0, violations |-> <<>>,
     teleportCount |-> 0, speedViolationCount |-> 0, wallBypassCount |-> 0]

MovementData(m, playerId) ==
    IF playerId \in DOMAIN m THEN m[playerId] ELSE NewMovementData

\* calculateDistance(x1, y1, x2, y2), of two points on one horizontal line
CalculateDistance(x1, y1, x2, y2) == Abs(x2 - x1)

\* calculateMaxAllowedSpeed(player, delta) of a player without speed multipliers:
\* 0.0016 * delta * 1.5 + 50, a whole number for the deltas of MoveDeltas
CalculateMaxAllowedSpeed(player, delta) == (24 * delta) \div 10000 + 50

\* checkValidTeleport(player, distance)
CheckValidTeleport(player, distance) == player.teleportClickMode \/ player.isAdmin

\* push(x), and shift() beyond size
PushBounded(s, x, size) ==
    LET pushed == Append(s, x) IN IF Len(pushed) > size THEN Tail(pushed) ELSE pushed

\* slice(-size) of a list longer than size
LastOf(s, size) == IF Len(s) > size THEN SubSeq(s, Len(s) - size + 1, Len(s)) ELSE s

\* recordPosition(playerId, x, y, timestamp): the record afterwards
RecordPositionOn(data, x, y, timestamp) ==
    LET timeDelta == timestamp - data.lastUpdateTime
        moved == data.lastPosition # NoPosition /\ data.lastUpdateTime > 0
        distance == CalculateDistance(data.lastPosition.x, data.lastPosition.y, x, y)
    IN [data EXCEPT
          !.positionHistory = PushBounded(@, [x |-> x, y |-> y, timestamp |-> timestamp],
                                          POSITION_HISTORY_SIZE),
          !.speedHistory = IF moved /\ timeDelta > 0
                           THEN PushBounded(@, (distance * SpeedUnit) \div timeDelta,
                                            MAX_SPEED_SAMPLES)
                           ELSE @,
          !.lastPosition = [x |-> x, y |-> y],
          !.lastUpdateTime = timestamp]

\* validateMovement: Math.min(30, (speedRatio - 1) * 15) as a score
SpeedScore(distance, maxAllowedDistance) ==
    IF distance >= 3 * maxAllowedDistance THEN Points(30)
    ELSE ((distance - maxAllowedDistance) * 15 * ScoreUnit) \div maxAllowedDistance

\* validateMovement that rejects a move for speed from the fourth speed
\* violation on
ValidateMovementRejectEarly(m, player, newX, newY, delta, t) ==
    LET data == MovementData(m, player.id)
        distance == CalculateDistance(data.lastPosition.x, data.lastPosition.y, newX, newY)
        teleportThreshold == PlayerScale * TELEPORT_THRESHOLD_MULTIPLIER
        teleport == distance > teleportThreshold /\ ~CheckValidTeleport(player, distance)
        maxAllowedDistance == CalculateMaxAllowedSpeed(player, delta)
        speeding == /\ distance > maxAllowedDistance
                    /\ delta > 0
                    /\ distance > 2 * maxAllowedDistance
        speedViolationCount == data.speedViolationCount + (IF speeding THEN 1 ELSE 0)
        violations == (IF teleport THEN <<"TELEPORTATION">> ELSE <<>>)
                      \o (IF speeding THEN <<"SPEED_HACK">> ELSE <<>>)
        results == [valid |-> ~teleport /\ ~(speeding /\ speedViolationCount >= 4),
                    violations |-> violations,
                    suspicionScore |->
                        (IF teleport THEN Points(40) ELSE 0)
                        + (IF speeding THEN SpeedScore(distance, maxAllowedDistance) ELSE 0)]
        counted == [data EXCEPT !.teleportCount = @ + (IF teleport THEN 1 ELSE 0),
                                !.speedViolationCount = speedViolationCount]
    IN
    IF data.lastPosition = NoPosition \/ player.isAdmin
    THEN [map |-> MapSet(m, player.id, RecordPositionOn(data, newX, newY, t)),
          results |-> [valid |-> TRUE, violations |-> <<>>, suspicionScore |-> 0]]
    ELSE [map |-> MapSet(m, player.id,
                         [RecordPositionOn(counted, newX, newY, t) EXCEPT
                            !.suspicionScore = results.suspicionScore,
                            !.violations = LastOf(@ \o violations, 50)]),
          results |-> results]

\* validateMovement(player, newX, newY, delta) at time t: the map afterwards and
\* the results returned
ValidateMovement(m, player, newX, newY, delta, t) ==
    LET data == MovementData(m, player.id)
        distance == CalculateDistance(data.lastPosition.x, data.lastPosition.y, newX, newY)
        teleportThreshold == PlayerScale * TELEPORT_THRESHOLD_MULTIPLIER
        teleport == distance > teleportThreshold /\ ~CheckValidTeleport(player, distance)
        maxAllowedDistance == CalculateMaxAllowedSpeed(player, delta)
        speeding == /\ distance > maxAllowedDistance
                    /\ delta > 0
                    /\ distance > 2 * maxAllowedDistance
        speedViolationCount == data.speedViolationCount + (IF speeding THEN 1 ELSE 0)
        violations == (IF teleport THEN <<"TELEPORTATION">> ELSE <<>>)
                      \o (IF speeding THEN <<"SPEED_HACK">> ELSE <<>>)
        results == [valid |-> ~teleport /\ ~(speeding /\ speedViolationCount >= 5),
                    violations |-> violations,
                    suspicionScore |->
                        (IF teleport THEN Points(40) ELSE 0)
                        + (IF speeding THEN SpeedScore(distance, maxAllowedDistance) ELSE 0)]
        counted == [data EXCEPT !.teleportCount = @ + (IF teleport THEN 1 ELSE 0),
                                !.speedViolationCount = speedViolationCount]
    IN
    IF data.lastPosition = NoPosition \/ player.isAdmin
    THEN [map |-> MapSet(m, player.id, RecordPositionOn(data, newX, newY, t)),
          results |-> [valid |-> TRUE, violations |-> <<>>, suspicionScore |-> 0]]
    ELSE [map |-> MapSet(m, player.id,
                         [RecordPositionOn(counted, newX, newY, t) EXCEPT
                            !.suspicionScore = results.suspicionScore,
                            !.violations = LastOf(@ \o violations, 50)]),
          results |-> results]

\* analyzeMovementPatterns: variance < 0.0001 && avgSpeed > 0.001.  Speeds that
\* span r have a variance of at least r * r / (2 * MAX_SPEED_SAMPLES)
ConsistentSpeed(speedHistory) ==
    LET n == Len(speedHistory)
    IN /\ SeqMax(speedHistory) - SeqMin(speedHistory) < 448
       /\ Dispersion(speedHistory) < ((SpeedUnit * SpeedUnit) \div 10000) * n * n
       /\ SeqSum(speedHistory) > (SpeedUnit \div 1000) * n

\* analyzeMovementPatterns(playerId): the map afterwards and the results returned
AnalyzeMovementPatterns(m, playerId) ==
    LET data == MovementData(m, playerId)
        found == /\ Len(data.positionHistory) >= WALL_BYPASS_CHECK_SAMPLES
                 /\ Len(data.speedHistory) >= MAX_SPEED_SAMPLES
                 /\ ConsistentSpeed(data.speedHistory)
    IN [map |-> MapSet(m, playerId, data),
        results |-> [suspicionScore |-> IF found THEN Points(15) ELSE 0,
                     violations |-> IF found THEN <<"UNNATURALLY_CONSISTENT_SPEED">>
                                    ELSE <<>>]]

\* getSuspicionScore(playerId)
GetSuspicionScore(m, playerId) == MovementData(m, playerId).suspicionScore

----------------------------------------------------------------------------
(* class ActivityMonitor *)

MIN_CLICK_VARIANCE == 30
CLICK_PATTERN_SAMPLE_SIZE == 10
ACTIVE_GAMEPLAY_THRESHOLD == 5

NewActivityData ==
    [heartbeats |-> <<>>, lastHeartbeat |-> 0, totalMouseMovements |-> 0,
     totalKeystrokes |-> 0, allClickPatterns |-> <<>>, gameplayActions |-> 0,
     noMouseMovementStreak |-> 0, suspicionScore |-> 0, violations |-> <<>>,
     isActive |-> FALSE]

ActivityData(m, playerId) ==
    IF playerId \in DOMAIN m THEN m[playerId] ELSE NewActivityData

\* analyzeClickPatterns(timestamps): the intervals between them
ClickIntervals(timestamps) ==
    [i \in 1..(Len(timestamps) - 1) |-> timestamps[i + 1] - timestamps[i]]

\* analyzeClickPatterns(timestamps).variance < MIN_CLICK_VARIANCE; of fewer than
\* two intervals the variance is Infinity, and intervals that span r have a
\* variance of at least r * r / (2 * 9)
ClickVarianceBelow(timestamps) ==
    LET intervals == ClickIntervals(timestamps)
        n == Len(intervals)
    IN /\ n >= 2
       /\ SeqMax(intervals) - SeqMin(intervals) < 24
       /\ Dispersion(intervals) < MIN_CLICK_VARIANCE * n * n

\* analyzeClickPatterns(timestamps).perfectIntervals
PerfectIntervals(timestamps) ==
    LET intervals == ClickIntervals(timestamps)
    IN IF Len(intervals) < 2 THEN 0
       ELSE Cardinality({i \in 2..Len(intervals) :
                            Abs(intervals[i] - intervals[i - 1]) <= 5})

\* recordGameplayAction(playerId)
ActivityRecordGameplayAction(m, playerId) ==
    MapSet(m, playerId, [ActivityData(m, playerId) EXCEPT !.gameplayActions = @ + 1,
                                                          !.isActive = TRUE])

\* processHeartbeat(playerId, heartbeatData) at time t, heartbeatData holding
\* numbers and a list of timestamps: the map afterwards and the results returned
ProcessHeartbeat(m, playerId, heartbeatData, t) ==
    LET data == ActivityData(m, playerId)
        allClickPatterns == LastOf(data.allClickPatterns \o heartbeatData.clickPatterns, 100)
        still == data.isActive /\ heartbeatData.mouseMovements = 0
        noMouseMovementStreak == IF still THEN data.noMouseMovementStreak + 1 ELSE 0
        noMouse == /\ still
                   /\ noMouseMovementStreak >= 3
                   /\ data.gameplayActions > ACTIVE_GAMEPLAY_THRESHOLD
        sampled == Len(allClickPatterns) >= CLICK_PATTERN_SAMPLE_SIZE
        sample == LastOf(allClickPatterns, CLICK_PATTERN_SAMPLE_SIZE)
        perfect == sampled /\ ClickVarianceBelow(sample)
        automated == sampled /\ PerfectIntervals(sample) * 10 > CLICK_PATTERN_SAMPLE_SIZE * 7
        violations == (IF noMouse THEN <<"NO_MOUSE_MOVEMENT_DURING_GAMEPLAY">> ELSE <<>>)
                      \o (IF perfect THEN <<"PERFECT_CLICK_PATTERN">> ELSE <<>>)
                      \o (IF automated THEN <<"AUTOMATED_CLICKING">> ELSE <<>>)
        results == [valid |-> TRUE,
                    suspicionScore |-> (IF noMouse THEN 20 ELSE 0)
                                       + (IF perfect THEN 25 ELSE 0)
                                       + (IF automated THEN 30 ELSE 0),
                    violations |-> violations]
    IN [map |-> MapSet(m, playerId,
                       [data EXCEPT
                          !.heartbeats =
                              PushBounded(@, [timestamp |-> t,
                                              mouseMovements |-> heartbeatData.mouseMovements,
                                              keystrokes |-> heartbeatData.keystrokes,
                                              clickPatterns |-> heartbeatData.clickPatterns],
                                          20),
                          !.totalMouseMovements = @ + heartbeatData.mouseMovements,
                          !.totalKeystrokes = @ + heartbeatData.keystrokes,
                          !.allClickPatterns = allClickPatterns,
                          !.noMouseMovementStreak = noMouseMovementStreak,
                          !.lastHeartbeat = t,
                          !.suspicionScore = Max(@, results.suspicionScore),
                          !.violations = IF violations = <<>> THEN @
                                         ELSE LastOf(@ \o violations, 30)]),
        results |-> results]

\* analyzePlayer(playerId): the map afterwards (results.violations is
\* data.violations itself, so what is pushed on it stays) and the results
ActivityAnalyzePlayer(m, playerId) ==
    LET data == ActivityData(m, playerId)
        recentHeartbeats == LastOf(data.heartbeats, 5)
        totalMouseInRecent ==
            SeqSum([i \in DOMAIN recentHeartbeats |-> recentHeartbeats[i].mouseMovements])
        totalKeysInRecent ==
            SeqSum([i \in DOMAIN recentHeartbeats |-> recentHeartbeats[i].keystrokes])
        enough == Len(data.heartbeats) >= 5
        sustained == enough /\ totalMouseInRecent = 0 /\ data.gameplayActions > 10
        keyboard == /\ enough
                    /\ totalKeysInRecent > 0
                    /\ totalMouseInRecent = 0
                    /\ data.gameplayActions > 5
        violations == data.violations
                      \o (IF sustained THEN <<"SUSTAINED_NO_MOUSE">> ELSE <<>>)
                      \o (IF keyboard THEN <<"KEYBOARD_ONLY_GAMEPLAY">> ELSE <<>>)
    IN [map |-> MapSet(m, playerId, [data EXCEPT !.violations = violations]),
        results |-> [suspicionScore |-> data.suspicionScore
                                        + (IF sustained THEN 15 ELSE 0)
                                        + (IF keyboard THEN 10 ELSE 0),
                     violations |-> violations]]

----------------------------------------------------------------------------
(* antiCheat/actions.js: class ActionValidator *)

RESOURCE_SYNC_TOLERANCE == 10

NewActionData == [suspicionScore |-> 0, violations |-> <<>>, invalidActionCount |-> 0]

ActionData(m, playerId) == IF playerId \in DOMAIN m THEN m[playerId] ELSE NewActionData

\* a + b || 0 of a number a and a property b that is a number or undefined:
\* a + undefined is NaN, and NaN || 0 is 0, as is 0 || 0
PlusOrZero(a, violation) ==
    IF "suspicionScore" \in DOMAIN violation THEN a + violation.suspicionScore ELSE 0

\* recordViolation(playerId, violation)
RecordViolation(m, playerId, violation) ==
    LET data == ActionData(m, playerId)
    IN MapSet(m, playerId,
              [data EXCEPT !.violations = LastOf(Append(@, violation.type), 50),
                           !.suspicionScore = Min(100, PlusOrZero(@, violation))])

\* validateResourceSpending(player, resourceType, amount) of wood: the map
\* afterwards and the results returned
ValidateResourceSpending(m, player, amount) ==
    LET currentAmount == player.wood
        data == ActionData(m, player.id)
        violation == [type |-> "RESOURCE_SPENDING_VIOLATION",
                      severity |-> Min(100, amount - currentAmount)]
        counted == MapSet(m, player.id, [data EXCEPT !.invalidActionCount = @ + 1])
    IN IF amount > currentAmount + RESOURCE_SYNC_TOLERANCE
       THEN [map |-> RecordViolation(counted, player.id, violation),
             results |-> [valid |-> FALSE, suspicionScore |-> 30,
                          violations |-> <<violation.type>>]]
       ELSE [map |-> m,
             results |-> [valid |-> TRUE, suspicionScore |-> 0, violations |-> <<>>]]

\* analyzePlayer(playerId): the map afterwards and the results returned
ActionAnalyzePlayer(m, playerId) ==
    LET data == ActionData(m, playerId)
    IN [map |-> MapSet(m, playerId, data),
        results |-> [suspicionScore |-> data.suspicionScore,
                     violations |-> data.violations]]

----------------------------------------------------------------------------
(* antiCheat/index.js: class AntiCheatController *)

\* new AntiCheatController(config, items): the analyzers' Maps and its own
NewAntiCheat ==
    [telemetry |-> EmptyMap, movement |-> EmptyMap, activity |-> EmptyMap,
     actions |-> EmptyMap, playerScores |-> EmptyMap, detectionLogs |-> <<>>,
     bannedPlayers |-> EmptyMap, kickedPlayers |-> EmptyMap, warnings |-> EmptyMap]

NoComponents == [telemetry |-> 0, movement |-> 0, activity |-> 0, actions |-> 0]

\* getPlayerScore(playerId): the Map afterwards
GetPlayerScore(playerScores, playerId, t) ==
    IF playerId \in DOMAIN playerScores THEN playerScores
    ELSE MapSet(playerScores, playerId,
                [total |-> 0, components |-> NoComponents, lastUpdate |-> t,
                 warningCount |-> 0, kickCount |-> 0])

\* Math.min(100, telemetry * 0.3 + movement * 0.25 + activity * 0.2 + actions * 0.25)
WeightedTotal(components) ==
    Min(Points(100),
        (6 * components.telemetry + 5 * components.movement
            + 4 * components.activity + 5 * components.actions) \div 20)

\* updatePlayerScore: the score afterwards, given what the analyzers returned
UpdatedScore(score, telemetryResult, movementResult, movementScore, activityResult, actionsResult, t) ==
    [score EXCEPT
       !.components = [telemetry |-> Points(telemetryResult.suspicionScore),
                       movement |-> movementResult.suspicionScore + movementScore,
                       activity |-> Points(activityResult.suspicionScore),
                       actions |-> Points(actionsResult.suspicionScore)],
       !.total = WeightedTotal(
                    [telemetry |-> Points(telemetryResult.suspicionScore),
                     movement |-> movementResult.suspicionScore + movementScore,
                     activity |-> Points(activityResult.suspicionScore),
                     actions |-> Points(actionsResult.suspicionScore)]),
       !.lastUpdate = t]

\* updatePlayerScore(playerId): the controller afterwards (what each analyzer
\* returns is the one member of a set, so that it is worked out once)
UpdatePlayerScore(ac, playerId, t) ==
    CHOOSE updated \in
       {[ac EXCEPT
           !.telemetry = telemetryResult.map,
           !.movement = movementResult.map,
           !.activity = activityResult.map,
           !.actions = actionsResult.map,
           !.playerScores =
               MapSet(entered, playerId,
                      UpdatedScore(entered[playerId], telemetryResult.results,
                                   movementResult.results,
                                   GetSuspicionScore(movementResult.map, playerId),
                                   activityResult.results, actionsResult.results, t))] :
          entered \in {GetPlayerScore(ac.playerScores, playerId, t)},
          telemetryResult \in {TelemetryAnalyzePlayer(ac.telemetry, playerId, t)},
          movementResult \in {AnalyzeMovementPatterns(ac.movement, playerId)},
          activityResult \in {ActivityAnalyzePlayer(ac.activity, playerId)},
          actionsResult \in {ActionAnalyzePlayer(ac.actions, playerId)}} : TRUE

\* determineAction that kicks from 60 on
DetermineActionEarlyKick(totalScore) ==
    IF totalScore >= Points(SUSPICION_THRESHOLDS.BAN) THEN "BAN"
    ELSE IF totalScore >= Points(60) THEN "KICK"
    ELSE IF totalScore >= Points(SUSPICION_THRESHOLDS.WARNING) THEN "WARNING"
    ELSE "NONE"

\* determineAction(totalScore)
DetermineAction(totalScore) ==
    IF totalScore >= Points(SUSPICION_THRESHOLDS.BAN) THEN "BAN"
    ELSE IF totalScore >= Points(SUSPICION_THRESHOLDS.KICK) THEN "KICK"
    ELSE IF totalScore >= Points(SUSPICION_THRESHOLDS.WARNING) THEN "WARNING"
    ELSE "NONE"

\* collectAllViolations(playerId): the controller afterwards (the analyzers are
\* asked again) and the violations collected
CollectAllViolations(ac, playerId, t) ==
    CHOOSE collected \in
       {[ac |-> [ac EXCEPT !.telemetry = telemetryResult.map,
                           !.movement = MapSet(@, playerId, movementData),
                           !.activity = activityResult.map,
                           !.actions = actionsResult.map],
         violations |-> telemetryResult.results.violations \o movementData.violations
                        \o activityResult.results.violations
                        \o actionsResult.results.violations] :
          telemetryResult \in {TelemetryAnalyzePlayer(ac.telemetry, playerId, t)},
          movementData \in {MovementData(ac.movement, playerId)},
          activityResult \in {ActivityAnalyzePlayer(ac.activity, playerId)},
          actionsResult \in {ActionAnalyzePlayer(ac.actions, playerId)}} : TRUE

\* logDetection(playerId, ipAddress, score, action): the controller afterwards
LogDetection(ac, playerId, ipAddress, score, action, t) ==
    CHOOSE logged \in
       {[collected.ac EXCEPT
           !.detectionLogs =
               PushBounded(@, [timestamp |-> t, playerId |-> playerId,
                               ipAddress |-> ipAddress, score |-> score.total,
                               components |-> score.components, action |-> action,
                               violations |-> collected.violations],
                           LOG_RETENTION_COUNT)] :
          collected \in {CollectAllViolations(ac, playerId, t)}} : TRUE

\* issueWarning(playerId, playerSocket, score): the controller afterwards
IssueWarning(ac, playerId, score, t) ==
    LET entered == GetPlayerScore(ac.playerScores, playerId, t)
        warningCount == entered[playerId].warningCount + 1
    IN [ac EXCEPT
          !.playerScores = MapSet(entered, playerId,
                                  [entered[playerId] EXCEPT !.warningCount = warningCount]),
          !.warnings = MapSet(@, playerId,
                              [playerId |-> playerId, score |-> score.total,
                               warningCount |-> warningCount, timestamp |-> t])]

\* kickPlayer(playerId, playerSocket, score): the controller afterwards
KickPlayer(ac, playerId, score, t) ==
    LET entered == GetPlayerScore(ac.playerScores, playerId, t)
        kickCount == entered[playerId].kickCount + 1
    IN [ac EXCEPT
          !.playerScores = MapSet(entered, playerId,
                                  [entered[playerId] EXCEPT !.kickCount = kickCount]),
          !.kickedPlayers = MapSet(@, playerId,
                                   [playerId |-> playerId, score |-> score.total,
                                    kickCount |-> kickCount, timestamp |-> t])]

\* the key of an address in bannedPlayers: `ip:${ipAddress}`
IpKey(ipAddress) == "ip:" \o ipAddress

\* banPlayer(playerId, playerSocket, ipAddress, score): the controller
\* afterwards; the empty address is the falsy one
BanPlayer(ac, playerId, ipAddress, score, t) ==
    LET banData == [playerId |-> playerId, ipAddress |-> ipAddress, score |-> score.total,
                    timestamp |-> t, expiresAt |-> t + BanLifetime]
        byPlayer == MapSet(ac.bannedPlayers, playerId, banData)
    IN [ac EXCEPT !.bannedPlayers = IF ipAddress # ""
                                    THEN MapSet(byPlayer, IpKey(ipAddress), banData)
                                    ELSE byPlayer]

\* checkAndEnforce, after updatePlayerScore: the controller afterwards and the
\* value returned
Enforce(updated, playerId, playerIpAddress, score, action, t) ==
    [ac |-> CASE action = "WARNING" ->
                   IssueWarning(LogDetection(updated, playerId, playerIpAddress, score,
                                             action, t),
                                playerId, score, t)
              [] action = "KICK" ->
                   KickPlayer(LogDetection(updated, playerId, playerIpAddress, score,
                                           action, t),
                              playerId, score, t)
              [] action = "BAN" ->
                   BanPlayer(LogDetection(updated, playerId, playerIpAddress, score,
                                          action, t),
                             playerId, playerIpAddress, score, t)
              [] OTHER -> updated,
     result |-> [score |-> score.total, action |-> action]]

\* checkAndEnforce(playerId, playerSocket, playerIpAddress): the controller
\* afterwards and the value returned
CheckAndEnforce(ac, playerId, playerIpAddress, t) ==
    CHOOSE r \in
       {Enforce(updated, playerId, playerIpAddress, updated.playerScores[playerId],
                DetermineAction(updated.playerScores[playerId].total), t) :
          updated \in {UpdatePlayerScore(ac, playerId, t)}} : TRUE

\* isBanned that reads a record without looking at the clock
IsBannedForever(ac, playerIdOrIp, t) ==
    [ac |-> ac,
     result |-> playerIdOrIp \in DOMAIN ac.bannedPlayers
                \/ IpKey(playerIdOrIp) \in DOMAIN ac.bannedPlayers]

\* isBanned(playerIdOrIp): the controller afterwards and the value returned
ControllerIsBanned(ac, playerIdOrIp, t) ==
    LET live(b, key) == key \in DOMAIN b /\ t < b[key].expiresAt
        first == IF playerIdOrIp \in DOMAIN ac.bannedPlayers
                    /\ ~live(ac.bannedPlayers, playerIdOrIp)
                 THEN MapDelete(ac.bannedPlayers, playerIdOrIp)
                 ELSE ac.bannedPlayers
        second == IF IpKey(playerIdOrIp) \in DOMAIN first /\ ~live(first, IpKey(playerIdOrIp))
                  THEN MapDelete(first, IpKey(playerIdOrIp))
                  ELSE first
    IN IF live(ac.bannedPlayers, playerIdOrIp)
       THEN [ac |-> ac, result |-> TRUE]
       ELSE IF live(first, IpKey(playerIdOrIp))
       THEN [ac |-> [ac EXCEPT !.bannedPlayers = first], result |-> TRUE]
       ELSE [ac |-> [ac EXCEPT !.bannedPlayers = second], result |-> FALSE]

\* unbanPlayer(playerIdOrIp): the controller afterwards
UnbanPlayer(ac, playerIdOrIp) ==
    [ac EXCEPT !.bannedPlayers = MapDelete(MapDelete(@, playerIdOrIp), IpKey(playerIdOrIp))]

\* one player's score after a decay that leaves the total as it was
DecayedScoreStaleTotal(score) ==
    [score EXCEPT !.components = [c \in DOMAIN score.components |->
                                     Decayed(score.components[c])]]

\* one player's score after a decay that never resets it
DecayedScoreNoReset(score) ==
    LET components == [c \in DOMAIN score.components |-> Decayed(score.components[c])]
    IN [score EXCEPT !.total = WeightedTotal(components), !.components = components]

\* decayAllScores(), one player's score afterwards
DecayedScore(score) ==
    LET components == [c \in DOMAIN score.components |-> Decayed(score.components[c])]
        total == WeightedTotal(components)
    IN IF total < Points(1)
       THEN [score EXCEPT !.total = 0, !.components = NoComponents]
       ELSE [score EXCEPT !.total = total, !.components = components]

\* decayAllScores(): the controller afterwards
DecayAllScores(ac) ==
    [ac EXCEPT !.playerScores = [p \in DOMAIN ac.playerScores |->
                                    DecayedScore(ac.playerScores[p])]]

\* a removePlayer that leaves the telemetry analyzer's profile behind
RemovePlayerButTelemetry(ac, playerId) ==
    [ac EXCEPT !.movement = MapDelete(@, playerId),
               !.activity = MapDelete(@, playerId),
               !.actions = MapDelete(@, playerId),
               !.playerScores = MapDelete(@, playerId),
               !.warnings = MapDelete(@, playerId)]

\* removePlayer(playerId): the controller afterwards
ControllerRemovePlayer(ac, playerId) ==
    [ac EXCEPT !.telemetry = MapDelete(@, playerId),
               !.movement = MapDelete(@, playerId),
               !.activity = MapDelete(@, playerId),
               !.actions = MapDelete(@, playerId),
               !.playerScores = MapDelete(@, playerId),
               !.warnings = MapDelete(@, playerId)]

----------------------------------------------------------------------------
(* Connection layer (index.js) around the rate limiter *)

Opcodes == {"M"}
Deltas == {FREEZE_DURATION, VIOLATION_DECAY_TIME + 1}

\* new RateLimiter(), and no connection yet
InitLimiter ==
    /\ conns = <<>>
    /\ accepted = NoCall
    /\ players = EmptyMap
    /\ ipBans = EmptyMap
    /\ vcount = [c \in ConnIds |-> 0]
    /\ vlast = [c \in ConnIds |-> 0]
    /\ vnogap = [c \in ConnIds |-> TRUE]
    /\ vlevel = [c \in ConnIds |-> 0]
    /\ vprev = [c \in ConnIds |-> 0]
    /\ vaction = [c \in ConnIds |-> ""]
    /\ vfirst = [c \in ConnIds |-> NoCall]
    /\ banLog = {}

\* a bucket nobody calls
InitIdleBucket ==
    /\ tb = NewTokenBucket(DEFAULT_BUCKET_SIZE, DEFAULT_REFILL_RATE, StartTime)
    /\ tbRet = NoCall

\* new SessionStore()
InitStore ==
    /\ sessions = EmptyMap
    /\ userSessionMap = EmptyMap
    /\ issuedTo = <<>>
    /\ sret = NoCall
    /\ reported = {}

\* a validator nobody calls
InitValidator ==
    /\ validationStats = NewValidationStats
    /\ vret = NoCall
    /\ sanit = NoCall

\* no connection accepted yet
InitHandlers ==
    /\ handlers = EmptyMap
    /\ mret = NoCall
    /\ loginAttempts = EmptyMap
    /\ userWebSocketMap = EmptyMap
    /\ grants = EmptyMap

InitAntiCheat ==
    /\ InitHandlers
    /\ antiCheat = NewAntiCheat
    /\ acret = NoCall
    /\ acCalls = 0
    /\ decays = 0
    /\ nextDecay = StartTime + SUSPICION_DECAY_INTERVAL
    /\ banHistory = {}

InitRL ==
    /\ now = StartTime
    /\ ticks = 0
    /\ InitIdleBucket
    /\ InitLimiter
    /\ InitStore
    /\ InitValidator
    /\ InitAntiCheat

\* wss.on("connection"): a connection from addr that passes the admin ban list,
\* the anti-cheat ban list and the per-address connection limit becomes a player
Connect(addr) ==
    /\ Len(conns) + 1 \in ConnIds
    /\ addr <= Cardinality({conns[c].ip : c \in DOMAIN conns}) + 1
    /\ conns' = Append(conns, [ip |-> addr, open |-> TRUE, closing |-> FALSE])
    /\ accepted' = [op |-> "connection", id |-> Len(conns) + 1, ip |-> addr,
                    ipBanned |-> IsIpBanned(ipBans, addr, now)]
    /\ UNCHANGED <<now, ticks, tbVars, sessVars, pvVars, acVars, chVars, players, ipBans, vcount, vlast,
                   vnogap, vlevel, vprev, vaction, vfirst, banLog>>

IsOpen(c) == c \in DOMAIN conns /\ conns[c].open

\* socket.on("message") up to the rate limiter: checkLimit(player.id, addr, t), and
\* socket.close() on 'disconnect' and 'ban'; messages that are already on their way
\* are still handled until the close event
Message(c, opcode) ==
    /\ IsOpen(c)
    /\ LET addr == conns[c].ip
           r == CheckLimit(players, ipBans, c, addr, opcode, now)
           violation == r.ret.reason = "Rate limit exceeded"
           nogap == vnogap[c] /\ (vcount[c] = 0 \/ now - vlast[c] <= 30 * MsPerSecond)
       IN /\ players' = r.players
          /\ ipBans' = r.ipBans
          /\ IF violation
             THEN /\ vcount' = [vcount EXCEPT ![c] = @ + 1]
                  /\ vlast' = [vlast EXCEPT ![c] = now]
                  /\ vnogap' = [vnogap EXCEPT ![c] = nogap]
                  /\ vlevel' = [vlevel EXCEPT ![c] = r.ret.escalationLevel]
                  /\ vprev' = [vprev EXCEPT ![c] = vlevel[c]]
                  /\ vaction' = [vaction EXCEPT ![c] = r.ret.action]
                  /\ banLog' = IF r.ret.action = "ban"
                               THEN banLog \cup {[ip |-> addr, at |-> now, by |-> c]}
                               ELSE banLog
             ELSE UNCHANGED <<vcount, vlast, vnogap, vlevel, vprev, vaction, banLog>>
          /\ vfirst' = IF vfirst[c] = NoCall
                       THEN [vfirst EXCEPT ![c] =
                                [op |-> "checkLimit", opcode |-> opcode,
                                 ipBanned |-> IsIpBanned(ipBans, addr, now),
                                 allowed |-> r.ret.allowed]]
                       ELSE vfirst
          /\ conns' = IF r.ret.action \in {"disconnect", "ban"}
                      THEN [conns EXCEPT ![c].closing = TRUE] ELSE conns
    /\ UNCHANGED <<now, ticks, tbVars, sessVars, pvVars, acVars, chVars, accepted>>

\* socket.on("close"): rateLimiter.removePlayer(player.id)
Close(c) ==
    /\ IsOpen(c)
    /\ conns' = [conns EXCEPT ![c].open = FALSE]
    /\ players' = RemovePlayer(players, c)
    /\ UNCHANGED <<now, ticks, tbVars, sessVars, pvVars, acVars, chVars, accepted, ipBans, vcount, vlast,
                   vnogap, vlevel, vprev, vaction, vfirst, banLog>>

\* the setInterval of the RateLimiter constructor: cleanup()
Cleanup ==
    /\ players' = CleanupPlayers(players, now)
    /\ ipBans' = CleanupIpBans(ipBans, now)
    /\ UNCHANGED <<now, ticks, tbVars, sessVars, pvVars, acVars, chVars, conns, accepted, vcount, vlast,
                   vnogap, vlevel, vprev, vaction, vfirst, banLog>>

\* a connection whose next message is rejected whatever it sends, until time passes
Blocked(c) ==
    \/ IsIpBanned(ipBans, conns[c].ip, now)
    \/ c \in DOMAIN players /\ (IsBanned(players[c], now) \/ IsFrozen(players[c], now))

Waiting ==
    /\ \E c \in ConnIds : IsOpen(c)
    /\ \A c \in ConnIds : IsOpen(c) => Blocked(c)

\* The clock advances by d at any moment: at most MaxTicks times
Tick(d) ==
    /\ ticks < MaxTicks
    /\ now + d <= StartTime + MaxTime
    /\ now' = now + d
    /\ ticks' = ticks + 1
    /\ UNCHANGED <<tbVars, rlVars, sessVars, pvVars, acVars, chVars>>

\* the times at which a freeze or a ban that blocks an open connection ends
WakeTimes ==
    UNION {   {ipBans[conns[c].ip] : x \in {y \in {0} : IsIpBanned(ipBans, conns[c].ip, now)}}
         \cup {players[c].bannedUntil :
                   x \in {y \in {0} : c \in DOMAIN players /\ IsBanned(players[c], now)}}
         \cup {players[c].freezeUntil :
                   x \in {y \in {0} : c \in DOMAIN players /\ IsFrozen(players[c], now)}}
         : c \in {i \in ConnIds : IsOpen(i)} }

Earliest(S) == CHOOSE t \in S : \A u \in S : t <= u

\* While every open connection waits for a freeze or a ban to end, the clock
\* advances to the first moment one of them ends (early = 0) or to the
\* millisecond before it (early = 1)
TickWaiting(early) ==
    /\ Waiting
    /\ now < Earliest(WakeTimes) - early
    /\ Earliest(WakeTimes) - early <= StartTime + MaxTime
    /\ now' = Earliest(WakeTimes) - early
    /\ UNCHANGED <<ticks, tbVars, rlVars, sessVars, pvVars, acVars, chVars>>

\* One connection, sending at any pace
NextRL ==
    \/ \E addr \in IPs : conns = <<>> /\ Connect(addr)
    \/ \E c \in ConnIds, opcode \in Opcodes : Message(c, opcode)
    \/ \E c \in ConnIds : Close(c)
    \/ Cleanup
    \/ \E d \in Deltas : Tick(d)
    \/ \E early \in {0, 1} : TickWaiting(early)

SpecRL == InitRL /\ [][NextRL]_vars

\* Concurrent connections, each sending as fast as the rate limiter lets it
NextBan ==
    \/ \E addr \in IPs : Connect(addr)
    \/ \E c \in ConnIds, opcode \in Opcodes : Message(c, opcode)
    \/ \E c \in ConnIds : Close(c)
    \/ Cleanup
    \/ \E early \in {0, 1} : TickWaiting(early)

SpecBan == InitRL /\ [][NextBan]_vars

\* A bucket of any configuration of the table, its methods called in any order
InitBucket ==
    /\ now = StartTime
    /\ ticks = 0
    /\ tb \in {BucketOf(config, StartTime) : config \in BucketConfigs}
    /\ tbRet = NoCall
    /\ InitLimiter
    /\ InitStore
    /\ InitValidator
    /\ InitAntiCheat

BucketConsume(amount) ==
    LET r == Consume(tb, amount, now) IN
    /\ tb' = r.bucket
    /\ tbRet' = [op |-> "consume", amount |-> amount, ok |-> r.ok, pre |-> tb, at |-> now]
    /\ UNCHANGED <<now, ticks, rlVars, sessVars, pvVars, acVars, chVars>>

BucketGetTokens ==
    /\ tb' = GetTokens(tb, now)
    /\ tbRet' = [op |-> "getTokens", amount |-> 0, ok |-> TRUE, pre |-> tb, at |-> now]
    /\ UNCHANGED <<now, ticks, rlVars, sessVars, pvVars, acVars, chVars>>

BucketTick(d) ==
    /\ ticks < MaxBucketTicks
    /\ now' = now + d
    /\ ticks' = ticks + 1
    /\ UNCHANGED <<tbVars, rlVars, sessVars, pvVars, acVars, chVars>>

NextBucket ==
    \/ \E amount \in 0..MaxAmount : BucketConsume(amount)
    \/ BucketGetTokens
    \/ \E d \in BucketDeltas : BucketTick(d)

SpecBucket == InitBucket /\ [][NextBucket]_vars

\* One connection that sends listed and unlisted opcodes, all in the same instant
OpOpcodes == {"M", "zz", "constructor"}

NextOp ==
    \/ \E addr \in IPs : conns = <<>> /\ Connect(addr)
    \/ \E c \in ConnIds, opcode \in OpOpcodes : Message(c, opcode)
    \/ \E c \in ConnIds : Close(c)

SpecOp == InitRL /\ [][NextOp]_vars

----------------------------------------------------------------------------
(* The packet validator under the calls made on it *)

\* the characters of the strings sanitizeString is tried on
Chars == {"a", " ", "<", "\t"}
Strings == UNION {[1..k -> Chars] : k \in 0..MaxStrLen}

\* sanitizeString on any string and any maximum length, then on its own output
InitSanitize ==
    /\ now = StartTime
    /\ ticks = 0
    /\ InitIdleBucket
    /\ InitLimiter
    /\ InitStore
    /\ validationStats = NewValidationStats
    /\ vret = NoCall
    /\ InitAntiCheat
    /\ sanit \in {[op |-> "sanitizeString", str |-> JsString(s), maxLength |-> n,
                   calls |-> 0, once |-> JsUndefined, twice |-> JsUndefined] :
                  s \in Strings, n \in 0..MaxStrLen}

SanitizeOnce ==
    /\ sanit.calls = 0
    /\ sanit' = [sanit EXCEPT !.calls = 1,
                              !.once = SanitizeString(sanit.str, sanit.maxLength)]
    /\ UNCHANGED <<now, ticks, tbVars, rlVars, sessVars, validationStats, vret, acVars, chVars>>

SanitizeAgain ==
    /\ sanit.calls = 1
    /\ sanit' = [sanit EXCEPT !.calls = 2,
                              !.twice = SanitizeString(sanit.once, sanit.maxLength)]
    /\ UNCHANGED <<now, ticks, tbVars, rlVars, sessVars, validationStats, vret, acVars, chVars>>

NextSanitize ==
    \/ SanitizeOnce
    \/ SanitizeAgain

SpecSanitize == InitSanitize /\ [][NextSanitize]_vars

\* the payloads validatePacket is tried on: arrays of up to two of these values,
\* the payloads REGISTER and STORE need beyond that, and values that are no array
LongName == [i \in 1..(MAX_NAME_LENGTH + 1) |-> "a"]
PacketValues ==
    {JsNull, JsBoolean(TRUE), JsNaN, JsNumber(0 - 7), JsNumber(0), JsNumber(1),
     JsNumber(7), JsNumber(101), JsString(<<"a", "b">>), JsString(<<" ", "a", "<">>),
     JsString(<<"5">>), JsString(LongName),
     JsObject(JsString(<<"a", "b">>), JsNumber(1)), JsRevoked}
FirstValues == {JsNumber(0), JsNumber(1), JsNumber(101), JsNaN, JsString(LongName)}
SpawnObjects ==
    {JsObject(JsUndefined, JsUndefined),
     JsObject(JsString(<<" ", "a", "<">>), JsNaN),
     JsObject(JsString(LongName), JsNumber(101)),
     JsObject(JsNull, JsNumber(1)),
     JsObject(JsUndefined, JsInfinity)}
Emails == {JsString(<<"A", "@", "a", ".", "a">>), JsString(<<"a", "@", "a", ".", "a">>),
           JsString(<<"a", "b">>)}
Payloads ==
    {JsArray(<<>>)}
    \cup {JsArray(<<v>>) : v \in PacketValues \cup SpawnObjects}
    \cup {JsArray(<<v, w>>) : v \in FirstValues, w \in PacketValues}
    \cup {JsArray(<<JsNumber(1), JsNumber(7), w>>) : w \in {JsNumber(0), JsNumber(1)}}
    \cup {JsArray(<<JsString(LongName), JsString(LongName), d, e>>) :
             d \in {JsNull, JsString(<<"a", "b">>), JsString(<<"<">>)}, e \in Emails}
    \cup {JsNull, JsNumber(1), JsRevoked}

\* the opcodes it is tried on: the catalogue, an opcode outside it, and two
\* names every object inherits
PacketOpcodes == VALID_OPCODES \cup {"zz", "constructor", "__proto__"}

\* the statistics of a validator that has answered no packet yet, or one
UsedStats ==
    {NewValidationStats}
    \cup {ValidatePacket(NewValidationStats, opcode, data).stats :
             opcode \in PacketOpcodes, data \in Payloads}

InitPacket ==
    /\ now = StartTime
    /\ ticks = 0
    /\ InitIdleBucket
    /\ InitLimiter
    /\ InitStore
    /\ validationStats \in UsedStats
    /\ vret = NoCall
    /\ sanit = NoCall
    /\ InitAntiCheat

\* index.js, socket.on("message"): packetValidator.validatePacket(t, payload, ...),
\* the next packet such a validator is handed
ValidatePacketCall ==
    /\ vret = NoCall
    /\ \E opcode \in PacketOpcodes, data \in Payloads :
          LET r == ValidatePacket(validationStats, opcode, data)
          IN /\ validationStats' = r.stats
             /\ vret' = [op |-> "validatePacket", opcode |-> opcode, data |-> data,
                         result |-> r.ret, before |-> validationStats]
    /\ UNCHANGED <<now, ticks, tbVars, rlVars, sessVars, sanit, acVars, chVars>>

NextPacket == ValidatePacketCall

SpecPacket == InitPacket /\ [][NextPacket]_vars

----------------------------------------------------------------------------
(* The anti-cheat controller under the calls made on it *)

AcPlayers == {"p1", "p2"}
\* the address of a player's connection; both players connect from one address
AddrOf(playerId) == "a1"

\* the calls of a script, applied in turn, each at its own time
ApplyCall(ac, call) ==
    CASE call.op = "recordInput" ->
            [ac EXCEPT !.telemetry = TelemetryRecordInput(@, call.playerId, call.at, call.at)]
      [] call.op = "recordAttack" ->
            [ac EXCEPT !.telemetry = TelemetryRecordAttack(@, call.playerId, call.at, call.at)]
      [] call.op = "recordGameplayAction" ->
            [ac EXCEPT !.activity = ActivityRecordGameplayAction(@, call.playerId)]
      [] call.op = "validateMovement" ->
            [ac EXCEPT !.movement = ValidateMovement(@, PlainPlayer(call.playerId),
                                                     call.x, 0, call.delta, call.at).map]
      [] call.op = "processHeartbeat" ->
            [ac EXCEPT !.activity = ProcessHeartbeat(@, call.playerId, call.data, call.at).map]
      [] call.op = "checkAndEnforce" ->
            CheckAndEnforce(ac, call.playerId, AddrOf(call.playerId), call.at).ac

\* (the controller after a call is the one member of a set, so that each call is
\* worked out once)
RECURSIVE Replay(_, _)
Replay(ac, script) ==
    IF script = <<>> THEN ac
    ELSE CHOOSE final \in {Replay(next, Tail(script)) :
                              next \in {ApplyCall(ac, Head(script))}} : TRUE

\* n calls of one kind, the last of them at time last, gap apart; every other
\* one is late by swing
Burst(op, playerId, n, last, gap, swing) ==
    [i \in 1..n |-> [op |-> op, playerId |-> playerId,
                     at |-> last - (n - i) * gap + (IF i % 2 = 0 THEN swing ELSE 0)]]

\* n steps of 10 to the right that end at x = 100, 50 ms apart
Walk(playerId, n, last) ==
    [i \in 1..n |-> [op |-> "validateMovement", playerId |-> playerId,
                     at |-> last - (n - i) * 50, x |-> 100 - (n - i) * 10, delta |-> 0]]

\* ten clicks, 100 ms apart
RegularClicks == [i \in 1..10 |-> i * 100]
IdleHeartbeat == [mouseMovements |-> 0, keystrokes |-> 1, clickPatterns |-> <<>>]
HumanHeartbeat == [mouseMovements |-> 5, keystrokes |-> 0, clickPatterns |-> <<>>]
ClickerHeartbeat == [mouseMovements |-> 0, keystrokes |-> 0, clickPatterns |-> RegularClicks]
Heartbeats == {IdleHeartbeat, HumanHeartbeat, ClickerHeartbeat}

Beats(playerId, n, last, data) ==
    [i \in 1..n |-> [op |-> "processHeartbeat", playerId |-> playerId,
                     at |-> last - (n - i) * 100, data |-> data]]

\* What a player did before the exploration starts, in the order of time
Scripts ==
    << <<>>,
       \* steady inputs, a steady walk, a keyboard and a clicker, a burst of attacks
       Burst("recordInput", "p1", 11, StartTime - 4000, 100, 0)
          \o Walk("p1", 11, StartTime - 3000)
          \o Burst("recordGameplayAction", "p1", 11, StartTime - 2000, 10, 0)
          \o Beats("p1", 4, StartTime - 1500, IdleHeartbeat)
          \o Beats("p1", 1, StartTime - 1000, ClickerHeartbeat)
          \o Burst("recordAttack", "p1", 24, StartTime, 40, 0),
       \* inputs and attacks at swinging intervals
       Burst("recordInput", "p1", 11, StartTime - 2000, 100, 30)
          \o Burst("recordAttack", "p1", 11, StartTime, 100, 30),
       \* steady inputs, a steady walk, a keyboard and a clicker, steady attacks,
       \* and the controller asked about it
       Burst("recordInput", "p1", 11, StartTime - 5000, 100, 0)
          \o Walk("p1", 11, StartTime - 4000)
          \o Burst("recordGameplayAction", "p1", 11, StartTime - 3500, 10, 0)
          \o Beats("p1", 4, StartTime - 3000, IdleHeartbeat)
          \o Beats("p1", 1, StartTime - 2500, ClickerHeartbeat)
          \o Burst("recordAttack", "p1", 11, StartTime - 500, 100, 0)
          \o Burst("checkAndEnforce", "p1", 1, StartTime - 100, 0, 0),
       \* a steady walk, a keyboard and a clicker
       Walk("p1", 11, StartTime - 3000)
          \o Burst("recordGameplayAction", "p1", 11, StartTime - 2000, 10, 0)
          \o Beats("p1", 4, StartTime - 1500, IdleHeartbeat)
          \o Beats("p1", 1, StartTime - 1000, ClickerHeartbeat) >>

\* the moves a player asks for: the player, the new x, the delta
MoveInputs ==
    { <<"plain", 100, 6250>>, <<"plain", 256, 6250>>, <<"plain", 700, 6250>>,
      <<"plain", 700, 0>>, <<"admin", 700, 6250>>, <<"click", 700, 6250>> }
PlayerOf(kind, id) ==
    CASE kind = "admin" -> AdminPlayer(id)
      [] kind = "click" -> ClickPlayer(id)
      [] OTHER -> PlainPlayer(id)
SpendAmounts == {5, 50}
AcDeltas == {1000}

\* A controller whose construction lies a while back
InitAC ==
    /\ now = StartTime
    /\ ticks = 0
    /\ InitIdleBucket
    /\ InitLimiter
    /\ InitStore
    /\ InitValidator
    /\ InitHandlers
    /\ antiCheat \in {Replay(NewAntiCheat, Scripts[i]) : i \in DOMAIN Scripts}
    /\ acret = NoCall
    /\ acCalls = 0
    /\ decays = 0
    /\ nextDecay = StartTime + SUSPICION_DECAY_INTERVAL
    /\ banHistory = {}

\* a call on the controller: what stays as it is
AcCall ==
    /\ acCalls < MaxCalls
    /\ acCalls' = acCalls + 1
    /\ UNCHANGED <<now, ticks, tbVars, rlVars, sessVars, pvVars, chVars, decays, nextDecay, banHistory>>

\* index.js, case "9": antiCheat.recordInput(player.id, Date.now())
RecordInput(playerId) ==
    /\ AcCall
    /\ antiCheat' = [antiCheat EXCEPT
                       !.telemetry = TelemetryRecordInput(@, playerId, now, now)]
    /\ acret' = [op |-> "recordInput", playerId |-> playerId]

\* index.js, case "F": antiCheat.recordAttack(player.id, Date.now())
RecordAttack(playerId) ==
    /\ AcCall
    /\ antiCheat' = [antiCheat EXCEPT
                       !.telemetry = TelemetryRecordAttack(@, playerId, now, now)]
    /\ acret' = [op |-> "recordAttack", playerId |-> playerId]

\* antiCheat.recordGameplayAction(player.id)
RecordGameplayAction(playerId) ==
    /\ AcCall
    /\ antiCheat' = [antiCheat EXCEPT
                       !.activity = ActivityRecordGameplayAction(@, playerId)]
    /\ acret' = [op |-> "recordGameplayAction", playerId |-> playerId]

\* antiCheat.validateMovement(player, newX, newY, delta)
ValidateMovementCall(playerId, move) ==
    /\ acCalls < MaxCalls
    /\ \E r \in {ValidateMovement(antiCheat.movement, PlayerOf(move[1], playerId),
                                  move[2], 0, move[3], now)} :
          /\ AcCall
          /\ antiCheat' = [antiCheat EXCEPT !.movement = r.map]
          /\ acret' = [op |-> "validateMovement", playerId |-> playerId, result |-> r.results]

\* index.js, case "INPUT_HEARTBEAT": antiCheat.processHeartbeat(player.id, heartbeatData)
ProcessHeartbeatCall(playerId, heartbeatData) ==
    /\ acCalls < MaxCalls
    /\ \E r \in {ProcessHeartbeat(antiCheat.activity, playerId, heartbeatData, now)} :
          /\ AcCall
          /\ antiCheat' = [antiCheat EXCEPT !.activity = r.map]
          /\ acret' = [op |-> "processHeartbeat", playerId |-> playerId, result |-> r.results]

\* antiCheat.validateResourceSpending(player, "wood", amount)
ValidateResourceSpendingCall(playerId, amount) ==
    /\ acCalls < MaxCalls
    /\ \E r \in {ValidateResourceSpending(antiCheat.actions, PlainPlayer(playerId),
                                          amount)} :
          /\ AcCall
          /\ antiCheat' = [antiCheat EXCEPT !.actions = r.map]
          /\ acret' = [op |-> "validateResourceSpending", playerId |-> playerId,
                       result |-> r.results]

\* antiCheat.updatePlayerScore(playerId)
UpdatePlayerScoreCall(playerId) ==
    /\ AcCall
    /\ antiCheat' = UpdatePlayerScore(antiCheat, playerId, now)
    /\ acret' = [op |-> "updatePlayerScore", playerId |-> playerId]

\* antiCheat.checkAndEnforce(player.id, socket, addr)
CheckAndEnforceCall(playerId) ==
    /\ acCalls < MaxCalls
    /\ \E r \in {CheckAndEnforce(antiCheat, playerId, AddrOf(playerId), now)} :
          /\ AcCall
          /\ antiCheat' = r.ac
          /\ acret' = [op |-> "checkAndEnforce", playerId |-> playerId, result |-> r.result,
                       before |-> antiCheat.playerScores]

\* index.js, socket.on("close"): antiCheat.removePlayer(player.id)
RemovePlayerCall(playerId) ==
    /\ AcCall
    /\ antiCheat' = ControllerRemovePlayer(antiCheat, playerId)
    /\ acret' = [op |-> "removePlayer", playerId |-> playerId]

\* The clock advances by d, short of the next decay
AcTick(d) ==
    /\ ticks < MaxAcTicks
    /\ now + d < nextDecay
    /\ now' = now + d
    /\ ticks' = ticks + 1
    /\ UNCHANGED <<tbVars, rlVars, sessVars, pvVars, acVars, chVars>>

\* setInterval(() => this.decayAllScores(), SUSPICION_DECAY_INTERVAL): the clock
\* reaches the next firing
DecayTimer ==
    /\ decays < MaxDecays
    /\ now' = nextDecay
    /\ nextDecay' = nextDecay + SUSPICION_DECAY_INTERVAL
    /\ decays' = decays + 1
    /\ antiCheat' = DecayAllScores(antiCheat)
    /\ acret' = [op |-> "decayAllScores"]
    /\ UNCHANGED <<ticks, tbVars, rlVars, sessVars, pvVars, chVars, acCalls, banHistory>>

NextAC ==
    \/ \E playerId \in AcPlayers :
          \/ RecordInput(playerId)
          \/ RecordAttack(playerId)
          \/ RecordGameplayAction(playerId)
          \/ \E move \in MoveInputs : ValidateMovementCall(playerId, move)
          \/ \E heartbeatData \in Heartbeats : ProcessHeartbeatCall(playerId, heartbeatData)
          \/ \E amount \in SpendAmounts : ValidateResourceSpendingCall(playerId, amount)
          \/ UpdatePlayerScoreCall(playerId)
          \/ CheckAndEnforceCall(playerId)
          \/ RemovePlayerCall(playerId)
    \/ \E d \in AcDeltas : AcTick(d)
    \/ DecayTimer

SpecAC == InitAC /\ [][NextAC]_vars

----------------------------------------------------------------------------
(* The controller's bans *)

\* the score handed to banPlayer: a total of 90
BanScore == [total |-> Points(SUSPICION_THRESHOLDS.BAN), components |-> NoComponents]
BanKeys == AcPlayers \cup {AddrOf(p) : p \in AcPlayers}

\* A controller just constructed
InitAcBans ==
    /\ now = StartTime
    /\ ticks = 0
    /\ InitIdleBucket
    /\ InitLimiter
    /\ InitStore
    /\ InitValidator
    /\ InitAntiCheat

\* a call on the controller's bans: what stays as it is
BanCall ==
    /\ acCalls < MaxBanCalls
    /\ acCalls' = acCalls + 1
    /\ UNCHANGED <<now, ticks, tbVars, rlVars, sessVars, pvVars, chVars, decays, nextDecay>>

\* checkAndEnforce, case 'BAN': this.banPlayer(playerId, playerSocket,
\* playerIpAddress, score).  banHistory keeps, for either name, when the ban was
\* issued, until isBanned is asked about the name at or after t + 24 h
BanPlayerCall(playerId) ==
    /\ BanCall
    /\ antiCheat' = BanPlayer(antiCheat, playerId, AddrOf(playerId), BanScore, now)
    /\ acret' = [op |-> "banPlayer", playerId |-> playerId,
                 ipAddress |-> AddrOf(playerId), at |-> now]
    /\ banHistory' = banHistory \cup {[key |-> playerId, at |-> now],
                                      [key |-> AddrOf(playerId), at |-> now]}

\* index.js, wss.on("connection"): antiCheat.isBanned(addr), and isBanned of a
\* player
IsBannedCall(playerIdOrIp) ==
    /\ BanCall
    /\ \E r \in {ControllerIsBanned(antiCheat, playerIdOrIp, now)} :
          /\ antiCheat' = r.ac
          /\ acret' = [op |-> "isBanned", key |-> playerIdOrIp, at |-> now,
                       result |-> r.result, before |-> antiCheat.bannedPlayers,
                       held |-> {b \in banHistory :
                                    b.key = playerIdOrIp /\ now < b.at + BanLifetime},
                       lifted |-> {b \in banHistory :
                                      b.key = playerIdOrIp /\ now >= b.at + BanLifetime}]
    /\ banHistory' = {b \in banHistory :
                         ~(b.key = playerIdOrIp /\ now >= b.at + BanLifetime)}

\* antiCheat.unbanPlayer(playerIdOrIp)
UnbanPlayerCall(playerIdOrIp) ==
    /\ BanCall
    /\ antiCheat' = UnbanPlayer(antiCheat, playerIdOrIp)
    /\ acret' = [op |-> "unbanPlayer", key |-> playerIdOrIp, at |-> now]
    /\ UNCHANGED banHistory

Expiries == {antiCheat.bannedPlayers[k].expiresAt : k \in DOMAIN antiCheat.bannedPlayers}

\* While no player has a score, decayAllScores changes nothing, however often it
\* runs: the clock advances to the first moment a ban expires (early = 0) or to
\* the millisecond before it (early = 1), and the timer fired on the way
SleepToExpiry(early) ==
    LET wake == Earliest(Expiries) - early
    IN /\ Expiries # {}
       /\ \A p \in DOMAIN antiCheat.playerScores :
             antiCheat.playerScores[p].components = NoComponents
       /\ now < wake
       /\ now' = wake
       /\ nextDecay' = IF wake < nextDecay THEN nextDecay
                       ELSE nextDecay + ((wake - nextDecay) \div SUSPICION_DECAY_INTERVAL + 1)
                                           * SUSPICION_DECAY_INTERVAL
       /\ UNCHANGED <<ticks, tbVars, rlVars, sessVars, pvVars, chVars,
                      antiCheat, acret, acCalls, decays, banHistory>>

NextAcBans ==
    \/ \E playerId \in AcPlayers : BanPlayerCall(playerId)
    \/ \E key \in BanKeys : IsBannedCall(key) \/ UnbanPlayerCall(key)
    \/ \E d \in AcDeltas : AcTick(d)
    \/ \E early \in {0, 1} : SleepToExpiry(early)

SpecAcBans == InitAcBans /\ [][NextAcBans]_vars

----------------------------------------------------------------------------
(* The handlers of index.js that call the session store *)

InitSess ==
    /\ now = StartTime
    /\ ticks = 0
    /\ InitIdleBucket
    /\ InitLimiter
    /\ InitStore
    /\ InitValidator
    /\ InitAntiCheat

\* the tokens clients hold: those some login returned
Issued == 1..Len(issuedTo)

\* the record of a call on the session store
Called(op, token, ok, reason) ==
    [op |-> op, token |-> token, ok |-> ok, reason |-> reason, at |-> now,
     stored |-> token \in DOMAIN sessions,
     lastActivity |-> IF token \in DOMAIN sessions THEN sessions[token].lastActivity ELSE 0,
     expiresAt |-> IF token \in DOMAIN sessions THEN sessions[token].expiresAt ELSE 0]

\* POST /api/account/login and the AUTH message with a right password:
\* AccountManager.validatePassword creates a session for the account
Login(userId) ==
    /\ Len(issuedTo) + 1 \in TokenIds
    /\ userId <= Cardinality({issuedTo[i] : i \in Issued}) + 1
    /\ LET token == RandomUUID(Len(issuedTo))
           r == CreateSession(sessions, userSessionMap, userId, token, now)
       IN /\ sessions' = r.sessions
          /\ userSessionMap' = r.userSessionMap
          /\ issuedTo' = Append(issuedTo, userId)
          /\ sret' = Called("createSession", token, r.ret.success, "")
    /\ UNCHANGED <<now, ticks, tbVars, rlVars, pvVars, acVars, chVars, reported>>

\* POST /api/account/validate-session and checkSessionExpiry: validateSession(token)
CheckSession(token) ==
    /\ LET r == ValidateSession(sessions, userSessionMap, token, now)
       IN /\ sessions' = r.sessions
          /\ userSessionMap' = r.userSessionMap
          /\ sret' = Called("validateSession", token, r.ret.valid, r.ret.reason)
          /\ reported' = IF r.ret.valid THEN reported ELSE reported \cup {token}
    /\ UNCHANGED <<now, ticks, tbVars, rlVars, pvVars, acVars, chVars, issuedTo>>

\* refreshPlayerSession, first step of socket.on("message"): refreshSession(token)
RefreshPlayerSession(token) ==
    /\ LET r == RefreshSession(sessions, userSessionMap, token, now)
       IN /\ sessions' = r.sessions
          /\ userSessionMap' = r.userSessionMap
          /\ sret' = Called("refreshSession", token, r.ret.success, r.ret.error)
          /\ reported' = IF r.ret.success THEN reported ELSE reported \cup {token}
    /\ UNCHANGED <<now, ticks, tbVars, rlVars, pvVars, acVars, chVars, issuedTo>>

\* wss.on("connection") with a sessionToken in the URL: validateSession(token) and,
\* when it is valid, refreshSession(token)
ConnectWithSession(token) ==
    /\ LET v == ValidateSession(sessions, userSessionMap, token, now)
           r == IF v.ret.valid
                THEN RefreshSession(v.sessions, v.userSessionMap, token, now) ELSE v
       IN /\ sessions' = r.sessions
          /\ userSessionMap' = r.userSessionMap
          /\ sret' = Called("connection", token, v.ret.valid, v.ret.reason)
          /\ reported' = IF v.ret.valid THEN reported ELSE reported \cup {token}
    /\ UNCHANGED <<now, ticks, tbVars, rlVars, pvVars, acVars, chVars, issuedTo>>

\* POST /api/account/logout and socket.on("close"): invalidateSession(token)
Logout(token) ==
    /\ LET r == InvalidateSession(sessions, userSessionMap, token)
       IN /\ sessions' = r.sessions
          /\ userSessionMap' = r.userSessionMap
          /\ sret' = Called("invalidateSession", token, r.ret.success, r.ret.error)
    /\ UNCHANGED <<now, ticks, tbVars, rlVars, pvVars, acVars, chVars, issuedTo, reported>>

\* AccountManager.invalidateAllUserSessions(userId)
InvalidateAllUserSessions(userId) ==
    /\ LET r == InvalidateUserSessions(sessions, userSessionMap, userId)
       IN /\ sessions' = r.sessions
          /\ userSessionMap' = r.userSessionMap
          /\ sret' = [op |-> "invalidateUserSessions", userId |-> userId,
                      ok |-> r.ret.success, count |-> r.ret.count, at |-> now,
                      before |-> sessions]
    /\ UNCHANGED <<now, ticks, tbVars, rlVars, pvVars, acVars, chVars, issuedTo, reported>>

\* the setInterval of index.js: cleanupExpiredSessions()
SessionCleanup ==
    /\ LET r == CleanupExpiredSessions(sessions, userSessionMap, now)
       IN /\ sessions' = r.sessions
          /\ userSessionMap' = r.userSessionMap
          /\ sret' = [op |-> "cleanupExpiredSessions", ok |-> r.ret.success,
                      count |-> r.ret.cleanedCount, at |-> now]
    /\ UNCHANGED <<now, ticks, tbVars, rlVars, pvVars, acVars, chVars, issuedTo, reported>>

\* the moments at which a stored session runs out of idle or of absolute time
SessDeadlines ==
    UNION {{sessions[tok].lastActivity + DEFAULT_IDLE_TIMEOUT, sessions[tok].expiresAt} :
              tok \in DOMAIN sessions}

SessOffsets == {0 - MsPerSecond, 0, MsPerSecond}

\* The clock advances to a deadline of a stored session, or to the second before
\* or after it: at most MaxSessTicks times
SessTick(deadline, offset) ==
    /\ ticks < MaxSessTicks
    /\ now < deadline + offset
    /\ now' = deadline + offset
    /\ ticks' = ticks + 1
    /\ UNCHANGED <<tbVars, rlVars, sessVars, pvVars, acVars, chVars>>

NextSess ==
    \/ \E userId \in UserIds : Login(userId)
    \/ \E token \in Issued : CheckSession(token)
    \/ \E token \in Issued : RefreshPlayerSession(token)
    \/ \E token \in Issued : ConnectWithSession(token)
    \/ \E token \in Issued : Logout(token)
    \/ \E userId \in UserIds : InvalidateAllUserSessions(userId)
    \/ SessionCleanup
    \/ \E deadline \in SessDeadlines, offset \in SessOffsets : SessTick(deadline, offset)

SpecSess == InitSess /\ [][NextSess]_vars

----------------------------------------------------------------------------
(* index.js: wss.on("connection") and the handlers it registers *)

SESSION_CHECK_INTERVAL == 60000
MAX_MESSAGE_SIZE == 1024
LOGIN_RATE_LIMIT == 5
LOGIN_RATE_WINDOW == 60000
SessionCloseDelay == 1000
PacketsPerSecond == 1000

\* what wss.on("connection") sets up for an accepted connection: the player of
\* game.addPlayer(socket), the socket, the session check interval (nextCheck is
\* the time it fires next, 0 once cleared) and the timeouts that close the
\* socket (closeTimers); waiting holds the message handlers that stand at an
\* await, received counts the messages and spawns the spawn requests among
\* them, applied lists the messages in the order in which their changes of the
\* player's state took effect
NewHandler(addr, sessionToken, sessionUserId, t) ==
    [ip |-> addr, socket |-> "open", playerSocket |-> TRUE,
     sessionToken |-> sessionToken, sessionUserId |-> sessionUserId,
     lastActivity |-> t, packetWindowStart |-> 0, packetCounter |-> 0,
     nextCheck |-> t + SESSION_CHECK_INTERVAL, closeTimers |-> {},
     account |-> 0, waiting |-> {}, received |-> 0, spawns |-> 0, applied |-> <<>>]

\* socket.close(code) on a socket: an open socket starts closing
SocketClose(h) ==
    [h EXCEPT !.socket = IF @ = "open" THEN "closing" ELSE @]

\* handleInvalidPacket(reason): player.socket.close(4002), player.socket = null
HandleInvalidPacket(h) ==
    IF h.playerSocket THEN [SocketClose(h) EXCEPT !.playerSocket = FALSE] ELSE h

\* checkMessageSize(rawMessage).valid, for a message of size bytes
CheckMessageSize(size) == size # 0 /\ ~(size > MAX_MESSAGE_SIZE)

\* the packets of a second: the window starts again after 1000 ms
CountPacket(h, t) ==
    IF h.packetWindowStart = 0 \/ t - h.packetWindowStart >= 1000
    THEN [h EXCEPT !.packetWindowStart = t, !.packetCounter = 1]
    ELSE [h EXCEPT !.packetCounter = @ + 1]

\* decoded[0] as the string t, "" where there is none (the numbers and bigints,
\* which the code turns into their decimal strings, are not sent)
PacketType(rawType) ==
    IF rawType.kind = "string" THEN rawType.val ELSE ""

\* checkLoginRateLimit(ip): the attempts map afterwards and the value returned
CheckLoginRateLimit(attempts, ip, t) ==
    LET old == IF ip \in DOMAIN attempts THEN attempts[ip]
               ELSE [count |-> 0, firstAttempt |-> t]
        new == IF t - old.firstAttempt > LOGIN_RATE_WINDOW
               THEN [count |-> 1, firstAttempt |-> t]
               ELSE [old EXCEPT !.count = @ + 1]
    IN [attempts |-> MapSet(attempts, ip, new), ok |-> new.count <= LOGIN_RATE_LIMIT]

\* sanitizeInput(str, maxLength)
SanitizeInput(str, maxLength) ==
    IF str.kind # "string" THEN <<>>
    ELSE Trim(Remove(Remove(Slice(str.val, maxLength), HtmlChars), ControlChars))

\* validateUsername(username): 4 to 16 characters of [a-zA-Z0-9_]
ValidateUsername(username) ==
    /\ Len(username) >= 4 /\ Len(username) <= 16
    /\ \A i \in DOMAIN username : username[i] \in {"a", "b", "A", "5", "_"}

\* validatePassword(password) of index.js
ValidatePasswordFormat(password) ==
    /\ password.kind = "string"
    /\ Len(password.val) >= 8 /\ Len(password.val) <= 30

\* the accounts of the database: the username and the password of each
AccountNames == <<LongName, <<"a", "b", "a", "b">>>>
AccountPassword == JsString(LongName)

\* accountManager.validatePassword(username, password), once its awaits are
\* over: the accountId when the password is right, 0 otherwise
AccountOf(username, password) ==
    IF password = AccountPassword /\ \E a \in DOMAIN AccountNames : AccountNames[a] = username
    THEN CHOOSE a \in DOMAIN AccountNames : AccountNames[a] = username
    ELSE 0

\* what a message handler works on: the player of its connection and the
\* objects of the module, and what it has done so far
Handling(h) ==
    [h |-> h, sessions |-> sessions, userSessionMap |-> userSessionMap,
     players |-> players, ipBans |-> ipBans, stats |-> validationStats,
     ac |-> antiCheat, attempts |-> loginAttempts,
     stages |-> <<>>, refreshed |-> FALSE, sizeOk |-> FALSE, allowed |-> FALSE,
     valid |-> FALSE, dispatched |-> FALSE, end |-> ""]

Staged(w, stage) == [w EXCEPT !.stages = Append(@, stage)]

\* data[k] || 0 and Array.isArray(data[2]) ? data[2] : [] of the case
\* "INPUT_HEARTBEAT", for the numbers and lists of numbers a client reports
HeartbeatCount(value) == IF value.kind = "number" THEN value.val \div 2 ELSE 0
HeartbeatClicks(value) ==
    IF value.kind = "array" THEN [i \in DOMAIN value.val |-> HeartbeatCount(value.val[i])]
    ELSE <<>>
HeartbeatData(data) ==
    [mouseMovements |-> HeartbeatCount(At(data.val, 1)),
     keystrokes |-> HeartbeatCount(At(data.val, 2)),
     clickPatterns |-> HeartbeatClicks(At(data.val, 3))]

\* the callbacks onKick and onBan of index.js: a timeout of 100 ms that closes
\* the socket, when it is open
KickTimer(h, action, time) ==
    IF action \in {"KICK", "BAN"} /\ h.socket = "open"
    THEN [h EXCEPT !.closeTimers = @ \cup {time + 100}] ELSE h

\* the switch of the message handler, for the cases "9", "AUTH" and
\* "INPUT_HEARTBEAT"; seq is the number of the message on its connection
Dispatch(w, c, seq, t, data, alive, time) ==
    LET d == [Staged(w, "dispatch") EXCEPT !.dispatched = TRUE, !.end = "dispatched"] IN
    IF t = "9"
    THEN IF ~alive THEN d
         ELSE [d EXCEPT
                 !.ac.telemetry = TelemetryRecordInput(@, c, time, time),
                 !.ac.activity = ActivityRecordGameplayAction(@, c),
                 !.h.applied = Append(@, seq)]
    ELSE IF t = "AUTH"
    THEN LET limit == CheckLoginRateLimit(d.attempts, d.h.ip, time)
             username == SanitizeInput(At(data.val, 1), 16)
             password == At(data.val, 2)
         IN IF ~limit.ok THEN [d EXCEPT !.attempts = limit.attempts]
            ELSE IF ~ValidateUsername(username) \/ ~ValidatePasswordFormat(password)
            THEN [d EXCEPT !.attempts = limit.attempts]
            ELSE [d EXCEPT !.attempts = limit.attempts,
                           !.h.waiting = @ \cup {[seq |-> seq, at |-> "validatePassword",
                                                  username |-> username,
                                                  password |-> password, account |-> 0]}]
    ELSE IF t = "INPUT_HEARTBEAT"
    THEN IF ~alive THEN d
         ELSE LET heartbeatResult ==
                      ProcessHeartbeat(d.ac.activity, c, HeartbeatData(data), time)
                  heard == [d EXCEPT !.ac.activity = heartbeatResult.map]
                  enforced == CheckAndEnforce(heard.ac, c, d.h.ip, time)
              IN IF heartbeatResult.results.suspicionScore > 20
                 THEN [heard EXCEPT !.ac = enforced.ac,
                                    !.h = KickTimer(@, enforced.result.action, time)]
                 ELSE heard
    ELSE d

\* packetValidator.validatePacket(t, payload, validationContext), and the switch
\* when it is valid
Validated(w, c, seq, t, payload, alive, time) ==
    LET r == ValidatePacket(w.stats, t, payload)
        v == [Staged(w, "validate") EXCEPT !.stats = r.stats, !.valid = r.ret.valid]
    IN IF ~r.ret.valid THEN [v EXCEPT !.end = "invalid"]
       ELSE Dispatch(v, c, seq, t, r.ret.sanitizedData, alive, time)

\* rateLimiter.checkLimit(player.id, addr, t), and what follows it
RateLimited(w, c, seq, t, payload, alive, time) ==
    LET r == CheckLimit(w.players, w.ipBans, c, w.h.ip, t, time)
        l == [Staged(w, "ratelimit") EXCEPT !.players = r.players, !.ipBans = r.ipBans,
                                            !.allowed = r.ret.allowed]
    IN IF r.ret.allowed THEN Validated(l, c, seq, t, payload, alive, time)
       ELSE IF r.ret.action = "disconnect"
       THEN [l EXCEPT !.h = HandleInvalidPacket(@), !.end = "rate limit"]
       ELSE IF r.ret.action = "ban"
       THEN [l EXCEPT !.h = SocketClose(@), !.end = "rate limit"]
       ELSE [l EXCEPT !.end = "rate limit"]

\* decode(msg) and the checks of its shape; decoded is the value decode returns
Decoded(w, c, seq, decoded, alive, time) ==
    IF decoded.kind # "array" \/ Len(decoded.val) < 2
    THEN [w EXCEPT !.h = HandleInvalidPacket(@), !.end = "malformed"]
    ELSE LET t == PacketType(decoded.val[1])
             payload == decoded.val[2]
         IN IF t = "" \/ Len(t) > 16
            THEN [w EXCEPT !.h = HandleInvalidPacket(@), !.end = "malformed"]
            ELSE IF payload.kind # "array"
            THEN [w EXCEPT !.h = HandleInvalidPacket(@), !.end = "malformed"]
            ELSE RateLimited(w, c, seq, t, payload, alive, time)

\* packetValidator.checkMessageSize(msg) and the count of the second's packets
Sized(w, c, seq, msg, alive, time) ==
    LET s == [Staged(w, "size") EXCEPT !.sizeOk = CheckMessageSize(msg.size)]
        counted == [s EXCEPT !.h = CountPacket(@, time)]
    IN IF ~s.sizeOk THEN [s EXCEPT !.h = HandleInvalidPacket(@), !.end = "oversized"]
       ELSE IF counted.h.packetCounter > PacketsPerSecond
       THEN [counted EXCEPT !.h = HandleInvalidPacket(@), !.end = "packet rate"]
       ELSE Decoded(counted, c, seq, msg.decoded, alive, time)

\* socket.on("message"), up to the first await of its switch: refreshPlayerSession()
\* first, whose result nobody reads
HandleMessage(c, msg, alive, time) ==
    LET h == [handlers[c] EXCEPT !.lastActivity = time, !.received = @ + 1]
        w == Staged(Handling(h), "session")
        r == RefreshSession(sessions, userSessionMap, h.sessionToken, time)
        refreshed == IF h.sessionToken = 0 THEN w
                     ELSE [w EXCEPT !.sessions = r.sessions,
                                    !.userSessionMap = r.userSessionMap,
                                    !.refreshed = r.ret.success]
    IN Sized(refreshed, c, h.received, msg, alive, time)

\* the session of a token is ACTIVE at time t: stored, and neither timeout passed
SessionActive(ss, token, t) ==
    /\ token \in DOMAIN ss
    /\ ~(t > ss[token].expiresAt)
    /\ ~(t - ss[token].lastActivity > DEFAULT_IDLE_TIMEOUT)

ConnAddrs == {"a1"}
HandlerConns == {1}
MaxVaried == 2
MaxMessages == 6
MaxConnTicks == 1

\* a spawn request, which a client that floods the server repeats
Spawn == [size |-> 10, decoded |-> JsArray(<<JsString("M"), JsArray(<<JsNull>>)>>)]

AuthMessage(username, password) ==
    [size |-> 40,
     decoded |-> JsArray(<<JsString("AUTH"), JsArray(<<JsString(username), password>>)>>)]

\* the messages a client sends: too large a one, one that decodes to no packet,
\* a move of each validity, a spawn request, and an AUTH with the right and
\* with a wrong password
WireMessages ==
    {[size |-> 2000, decoded |-> JsArray(<<JsString("9"), JsArray(<<JsNumber(1)>>)>>)],
     [size |-> 10, decoded |-> JsNumber(1)],
     [size |-> 10, decoded |-> JsArray(<<JsString("9"), JsArray(<<JsNumber(1)>>)>>)],
     [size |-> 10, decoded |-> JsArray(<<JsString("9"), JsArray(<<JsString(<<"a">>)>>)>>)],
     Spawn,
     AuthMessage(AccountNames[1], AccountPassword),
     AuthMessage(AccountNames[1], JsString(<<"a", "a", "a", "a", "b", "b", "b", "b">>))}

InitConn ==
    /\ now = StartTime
    /\ ticks = 0
    /\ InitIdleBucket
    /\ InitLimiter
    /\ InitStore
    /\ InitValidator
    /\ InitAntiCheat

\* what the handlers of index.js leave alone; registerWebSocket and
\* unregisterWebSocket have no caller, so userWebSocketMap is among it
ConnFrame ==
    UNCHANGED <<now, ticks, tbVars, conns, accepted, vcount, vlast, vnogap, vlevel, vprev,
                vaction, vfirst, banLog, issuedTo, sret, reported, vret, sanit,
                acret, acCalls, decays, nextDecay, banHistory, userWebSocketMap, grants>>

\* wss.on("connection") for a request from addr whose URL carries sessionToken
\* (0: none): the ban lists and the connection limit passed, the player is added
Accept(c, addr, sessionToken) ==
    /\ c \in HandlerConns \ DOMAIN handlers
    /\ \E banned \in {ControllerIsBanned(antiCheat, addr, now)} :
          /\ ~banned.result
          /\ antiCheat' = banned.ac
    /\ LET v == ValidateSession(sessions, userSessionMap, sessionToken, now)
           r == IF sessionToken # 0 /\ v.ret.valid
                THEN RefreshSession(v.sessions, v.userSessionMap, sessionToken, now)
                ELSE IF sessionToken # 0 THEN v
                ELSE Store(sessions, userSessionMap, v.ret)
           sessionUserId == IF sessionToken # 0 /\ v.ret.valid
                            THEN sessions[sessionToken].userId ELSE 0
       IN /\ sessions' = r.sessions
          /\ userSessionMap' = r.userSessionMap
          /\ handlers' = MapSet(handlers, c,
                                NewHandler(addr, sessionToken, sessionUserId, now))
          /\ mret' = [op |-> "connection", conn |-> c, sessionToken |-> sessionToken,
                      valid |-> sessionToken # 0 /\ v.ret.valid]
    /\ UNCHANGED <<players, ipBans, validationStats, loginAttempts>>
    /\ ConnFrame

\* a socket that still delivers messages: open, or closing and not yet closed
Delivering(c) == c \in DOMAIN handlers /\ handlers[c].socket \in {"open", "closing"}

\* socket.on("message") for the message msg; alive is player.alive, which the
\* game sets.  A client sends MaxVaried messages; one that has sent nothing but
\* spawn requests goes on with them up to MaxMessages
OnMessage(c, msg, alive) ==
    /\ Delivering(c)
    /\ \/ handlers[c].received < MaxVaried
       \/ /\ msg = Spawn
          /\ handlers[c].spawns = handlers[c].received
          /\ handlers[c].received < MaxMessages
    /\ \E w \in {HandleMessage(c, msg, alive, now)} :
          /\ handlers' = MapSet(handlers, c,
                                [w.h EXCEPT !.spawns = IF msg = Spawn THEN @ + 1 ELSE @])
          /\ sessions' = w.sessions
          /\ userSessionMap' = w.userSessionMap
          /\ players' = w.players
          /\ ipBans' = w.ipBans
          /\ validationStats' = w.stats
          /\ antiCheat' = w.ac
          /\ loginAttempts' = w.attempts
          /\ mret' = [op |-> "message", conn |-> c, seq |-> w.h.received,
                      stages |-> w.stages, end |-> w.end, sizeOk |-> w.sizeOk,
                      allowed |-> w.allowed, valid |-> w.valid,
                      dispatched |-> w.dispatched, refreshed |-> w.refreshed,
                      sessionToken |-> handlers[c].sessionToken,
                      active |-> SessionActive(sessions, handlers[c].sessionToken, now),
                      lastActivity |->
                          IF handlers[c].sessionToken \in DOMAIN sessions
                          THEN sessions[handlers[c].sessionToken].lastActivity ELSE 0]
    /\ ConnFrame

\* the AUTH handler of message auth goes on after an await: after
\* accountManager.validatePassword(username, password), which creates a session
\* for the account when the password is right, and, for a player who is logged
\* in already, after accountManager.saveClientPlayTime(player.id)
AuthResume(c, auth) ==
    /\ c \in DOMAIN handlers
    /\ auth \in handlers[c].waiting
    /\ LET h == handlers[c]
           rest == h.waiting \ {auth}
           account == IF auth.at = "validatePassword"
                      THEN AccountOf(auth.username, auth.password) ELSE auth.account
           token == RandomUUID(Len(issuedTo))
           created == CreateSession(sessions, userSessionMap, account, token, now)
           login == auth.at = "validatePassword" /\ account # 0
       IN /\ login => Len(issuedTo) + 1 \in TokenIds
          /\ sessions' = IF login THEN created.sessions ELSE sessions
          /\ userSessionMap' = IF login THEN created.userSessionMap ELSE userSessionMap
          /\ issuedTo' = IF login THEN Append(issuedTo, account) ELSE issuedTo
          /\ handlers' = MapSet(handlers, c,
                IF account = 0 THEN [h EXCEPT !.waiting = rest]
                ELSE IF auth.at = "validatePassword" /\ h.account # 0
                THEN [h EXCEPT !.waiting = rest \cup
                                  {[auth EXCEPT !.at = "saveClientPlayTime",
                                                !.account = account]}]
                ELSE [h EXCEPT !.waiting = rest, !.account = account,
                               !.applied = Append(@, auth.seq)])
          /\ mret' = [op |-> "authResume", conn |-> c, seq |-> auth.seq,
                      account |-> account, at |-> auth.at]
    /\ UNCHANGED <<now, ticks, tbVars, conns, accepted, vcount, vlast, vnogap, vlevel,
                   vprev, vaction, vfirst, banLog, sret, reported, vret, sanit,
                   acVars, players, ipBans, validationStats, loginAttempts,
                   userWebSocketMap, grants>>

\* a check that tells the client of an expired session and stops itself, and
\* sets no timeout to close the socket
SessionCheckNoClose(c) ==
    /\ c \in DOMAIN handlers
    /\ handlers[c].nextCheck = now
    /\ LET h == handlers[c]
           v == ValidateSession(sessions, userSessionMap, h.sessionToken, now)
           found == h.sessionToken # 0 /\ ~v.ret.valid
       IN /\ sessions' = IF h.sessionToken # 0 THEN v.sessions ELSE sessions
          /\ userSessionMap' = IF h.sessionToken # 0 THEN v.userSessionMap
                               ELSE userSessionMap
          /\ handlers' = MapSet(handlers, c,
                [h EXCEPT !.nextCheck = IF found THEN 0 ELSE now + SESSION_CHECK_INTERVAL])
          /\ mret' = [op |-> "checkSessionExpiry", conn |-> c, expired |-> found]
    /\ UNCHANGED <<players, ipBans, validationStats, loginAttempts, antiCheat>>
    /\ ConnFrame

\* the session check interval fires: checkSessionExpiry()
SessionCheck(c) ==
    /\ c \in DOMAIN handlers
    /\ handlers[c].nextCheck = now
    /\ LET h == handlers[c]
           v == ValidateSession(sessions, userSessionMap, h.sessionToken, now)
           found == h.sessionToken # 0 /\ ~v.ret.valid
       IN /\ sessions' = IF h.sessionToken # 0 THEN v.sessions ELSE sessions
          /\ userSessionMap' = IF h.sessionToken # 0 THEN v.userSessionMap
                               ELSE userSessionMap
          /\ handlers' = MapSet(handlers, c,
                [h EXCEPT !.nextCheck = now + SESSION_CHECK_INTERVAL,
                          !.closeTimers = IF found THEN @ \cup {now + SessionCloseDelay}
                                          ELSE @])
          /\ mret' = [op |-> "checkSessionExpiry", conn |-> c, expired |-> found]
    /\ UNCHANGED <<players, ipBans, validationStats, loginAttempts, antiCheat>>
    /\ ConnFrame

\* the timeout of checkSessionExpiry: if (player.socket) player.socket.close(4004)
CloseTimer(c) ==
    /\ c \in DOMAIN handlers
    /\ now \in handlers[c].closeTimers
    /\ LET h == [handlers[c] EXCEPT !.closeTimers = @ \ {now}]
       IN handlers' = MapSet(handlers, c, IF h.playerSocket THEN SocketClose(h) ELSE h)
    /\ mret' = [op |-> "closeTimer", conn |-> c]
    /\ UNCHANGED <<sessions, userSessionMap, players, ipBans, validationStats,
                   loginAttempts, antiCheat>>
    /\ ConnFrame

\* socket.on("close"): the client went away, or a close the server began is done
OnClose(c) ==
    /\ Delivering(c)
    /\ LET h == handlers[c]
           r == InvalidateSession(sessions, userSessionMap, h.sessionToken)
       IN /\ handlers' = MapSet(handlers, c, [h EXCEPT !.socket = "closed", !.nextCheck = 0])
          /\ players' = RemovePlayer(players, c)
          /\ antiCheat' = ControllerRemovePlayer(antiCheat, c)
          /\ sessions' = IF h.sessionToken # 0 THEN r.sessions ELSE sessions
          /\ userSessionMap' = IF h.sessionToken # 0 THEN r.userSessionMap
                               ELSE userSessionMap
          /\ mret' = [op |-> "close", conn |-> c, begun |-> h.socket = "closing"]
    /\ UNCHANGED <<ipBans, validationStats, loginAttempts>>
    /\ ConnFrame

\* the timeouts that are set, and the next firing of every interval that runs
CloseTimes == UNION {handlers[c].closeTimers : c \in DOMAIN handlers}
Checking == {c \in DOMAIN handlers : handlers[c].nextCheck # 0}

\* a firing of the session check of c at time t finds nothing to do
IdleCheck(c, t) ==
    handlers[c].sessionToken = 0 \/ SessionActive(sessions, handlers[c].sessionToken, t)

\* the last firing of the session check of c before target, and its first
\* firing at target or later
LastFiringBefore(c, target) ==
    handlers[c].nextCheck
        + ((target - 1 - handlers[c].nextCheck) \div SESSION_CHECK_INTERVAL)
              * SESSION_CHECK_INTERVAL
FirstFiringFrom(c, target) ==
    IF target <= handlers[c].nextCheck THEN handlers[c].nextCheck
    ELSE handlers[c].nextCheck
             + ((target - handlers[c].nextCheck + SESSION_CHECK_INTERVAL - 1)
                    \div SESSION_CHECK_INTERVAL) * SESSION_CHECK_INTERVAL

\* The clock advances to target: no timeout is passed over, and the firings of
\* the session checks that are passed over are those that find nothing to do.
\* A close that has begun is over before the clock advances (ws ends it within
\* its closeTimeout)
AdvanceTo(target) ==
    /\ now < target
    /\ \A c \in DOMAIN handlers : handlers[c].socket # "closing"
    /\ \A t \in CloseTimes : target <= t
    /\ \A c \in Checking :
          handlers[c].nextCheck < target => IdleCheck(c, LastFiringBefore(c, target))
    /\ now' = target
    /\ handlers' = [c \in DOMAIN handlers |->
                       IF c \in Checking /\ handlers[c].nextCheck < target
                       THEN [handlers[c] EXCEPT !.nextCheck = FirstFiringFrom(c, target)]
                       ELSE handlers[c]]
    /\ UNCHANGED <<tbVars, rlVars, sessVars, pvVars, acVars, mret, loginAttempts,
                   userWebSocketMap, grants>>

\* the first moments at which a stored session has run out of idle time, and
\* of absolute time
SessionEnds(ss) ==
    UNION {{ss[tok].lastActivity + DEFAULT_IDLE_TIMEOUT + 1, ss[tok].expiresAt + 1} :
              tok \in DOMAIN ss}

\* the timeouts, and the session checks that will find a session gone
DueTimes ==
    CloseTimes \cup {FirstFiringFrom(c, now) : c \in {d \in Checking :
                        ~IdleCheck(d, FirstFiringFrom(d, now))}}

\* Time passes while nothing arrives: to the next session check or to the end
\* of a session; at most MaxConnTicks times
ConnTick(target) ==
    /\ ticks < MaxConnTicks
    /\ ticks' = ticks + 1
    /\ AdvanceTo(target)

\* Time passes up to a timeout or a session check that has something to do
ConnDue(target) ==
    /\ target \in DueTimes
    /\ UNCHANGED ticks
    /\ AdvanceTo(target)

\* The HTTP login that precedes a connection
LoginFirst(userId) == DOMAIN handlers = {} /\ issuedTo = <<>> /\ Login(userId)

\* The firings of the cleanup interval that find a session to delete
DueCleanup == (\E tok \in DOMAIN sessions : ~SessionActive(sessions, tok, now)) /\ SessionCleanup

NextConn ==
    \/ \E userId \in UserIds : LoginFirst(userId)
    \/ DueCleanup
    \/ \E c \in HandlerConns, addr \in ConnAddrs, token \in {0} \cup Issued :
          Accept(c, addr, token)
    \/ \E c \in HandlerConns, msg \in WireMessages, alive \in BOOLEAN :
          OnMessage(c, msg, alive)
    \/ \E c \in DOMAIN handlers : \E auth \in handlers[c].waiting : AuthResume(c, auth)
    \/ \E c \in HandlerConns : SessionCheck(c)
    \/ \E c \in HandlerConns : CloseTimer(c)
    \/ \E c \in HandlerConns : OnClose(c)
    \/ \E target \in {handlers[c].nextCheck : c \in Checking} \cup SessionEnds(sessions) :
          ConnTick(target)
    \/ \E target \in DueTimes : ConnDue(target)

SpecConn == InitConn /\ [][NextConn]_vars

\* the 'close' event of a socket the server has begun to close
CloseDone(c) == c \in DOMAIN handlers /\ handlers[c].socket = "closing" /\ OnClose(c)

\* Timers fire: the clock reaches every timeout and every session check that
\* has something to do, the callback due then runs, and a close the server
\* began comes to its end.  Nothing makes a client send, or leave
SpecConnFair ==
    /\ SpecConn
    /\ WF_vars(\E target \in DueTimes : ConnDue(target))
    /\ \A c \in HandlerConns :
          /\ WF_vars(SessionCheck(c))
          /\ WF_vars(CloseTimer(c))
          /\ WF_vars(CloseDone(c))

----------------------------------------------------------------------------
(* The token bucket *)

\* the level a bucket b of numbers holds at time t once refilled, as the
\* specification states it: min(capacity, tokens + elapsedSeconds x refillRate)
RefilledLevel(b, t) ==
    Min(b.maxTokens * MsPerSecond, b.tokens + (t - b.lastRefill) * b.refillRate)

\* C2: after any sequence of consume and getTokens calls under a non-decreasing
\* clock, the token level of every bucket is a number that is at least 0 and at
\* most the capacity.
TokensWithinCapacity ==
    tbRet.op \in {"consume", "getTokens"} =>
        /\ ~tb.nan
        /\ 0 <= tb.tokens
        /\ tb.tokens <= tb.maxTokens * MsPerSecond

\* C3: consume(n) first refills to min(capacity, tokens + elapsedSeconds x
\* refillRate) and sets lastRefill to now; it returns true and subtracts n exactly
\* when the refilled level is at least n, and otherwise returns false and leaves the
\* refilled level; a bucket of capacity 10 and refill 5/s that was drained to 0 holds
\* 5 tokens one second later.
ConsumeRefillsThenTakes ==
    /\ (tbRet.op = "consume" /\ ~tbRet.pre.nan) =>
           LET level == RefilledLevel(tbRet.pre, tbRet.at)
               n == tbRet.amount * MsPerSecond
           IN /\ tb.lastRefill = tbRet.at
              /\ tbRet.ok = (level >= n)
              /\ ~tb.nan
              /\ tb.tokens = IF level >= n THEN level - n ELSE level
    \* a level that is not a number is at least no n, and stays what it is
    /\ (tbRet.op = "consume" /\ tbRet.pre.nan) =>
           tb.lastRefill = tbRet.at /\ ~tbRet.ok /\ tb.nan
    /\ (/\ tbRet.op = "getTokens"
        /\ tb.maxTokens = 10 /\ tb.refillRate = 5
        /\ tbRet.pre.tokens = 0 /\ tbRet.at - tbRet.pre.lastRefill = MsPerSecond)
           => tb.tokens = 5 * MsPerSecond

\* the bucket of capacity 10 and refill 5/s, drained to 0, is asked for 2 tokens one
\* second later and is left with 3
ConsumeRefillsThenTakesWitness ==
    /\ tbRet.op = "consume" /\ tbRet.amount = 2 /\ tbRet.ok
    /\ tb.maxTokens = 10 /\ tb.refillRate = 5
    /\ tbRet.pre.tokens = 0 /\ tbRet.at - tbRet.pre.lastRefill = MsPerSecond
    /\ tb.tokens = 3 * MsPerSecond

----------------------------------------------------------------------------
(* Escalation of one connection *)

\* the action the k-th consecutive violation is claimed to return
ActionOfCount(k) ==
    IF k <= 4 THEN "blocked"
    ELSE IF k <= 14 THEN "warning"
    ELSE IF k <= 29 THEN "freeze"
    ELSE IF k <= 49 THEN "disconnect"
    ELSE "ban"

\* C1: among the checkLimit calls of a connection that are rejected for lack of
\* tokens, each within 30 s of the previous one, the k-th returns 'blocked' for
\* k in 1..4, 'warning' for 5..14, 'freeze' for 15..29, 'disconnect' for 30..49 and
\* 'ban' for k = 50; the level returned never decreases and is BAN at the 50th
\* such call and at no earlier one.
EscalationLadder ==
    \A c \in ConnIds :
        (vcount[c] >= 1 /\ vnogap[c]) =>
            /\ vcount[c] <= 50
            /\ vaction[c] = ActionOfCount(vcount[c])
            /\ vlevel[c] >= vprev[c]
            /\ (vlevel[c] = ESCALATION_LEVELS.BAN) = (vcount[c] = 50)

\* a connection's 50th violation in a row returned 'ban', with calls that were
\* allowed in between
EscalationLadderWitness ==
    \E c \in ConnIds :
        /\ vnogap[c] /\ vcount[c] = 50 /\ vaction[c] = "ban"
        /\ c \in DOMAIN players /\ players[c].violations = 50
        /\ ticks > 0

----------------------------------------------------------------------------
(* Freeze and ban *)

\* opcodes a client may send: two of the table, one of no table, and the name of
\* a property of Object.prototype
AnyOpcodes == {"M", "K", "zz", "constructor"}

\* checkLimit(c, address of c, opcode) called now: the object returned
NextReturn(c, opcode) == CheckLimit(players, ipBans, c, conns[c].ip, opcode, now).ret

\* the last violation of c returned 'freeze' and the state of c is the one it left
JustFrozen(c) ==
    /\ c \in DOMAIN players
    /\ vaction[c] = "freeze"
    /\ players[c].lastViolation = vlast[c]

\* While bannedUntil of a connection is in the future every checkLimit for it returns
\* 'ban', and otherwise while its freezeUntil is in the future every checkLimit for
\* it returns 'freeze', whatever the opcode and the tokens; reaching FREEZE sets
\* freezeUntil to now + 5 s.  (The statement of C4 as it was made.)
FrozenAlwaysFreeze ==
    \A c \in ConnIds, opcode \in AnyOpcodes :
        (IsOpen(c) /\ c \in DOMAIN players) =>
            /\ now < players[c].bannedUntil =>
                   ~NextReturn(c, opcode).allowed /\ NextReturn(c, opcode).action = "ban"
            /\ (~(now < players[c].bannedUntil) /\ now < players[c].freezeUntil) =>
                   ~NextReturn(c, opcode).allowed /\ NextReturn(c, opcode).action = "freeze"
            /\ JustFrozen(c) => players[c].freezeUntil = vlast[c] + 5 * MsPerSecond

\* C4: while bannedUntil of a connection is in the future every checkLimit for it
\* returns 'ban'; otherwise while its freezeUntil is in the future every checkLimit
\* for it is rejected, whatever the opcode and the tokens, with 'ban' if its address
\* has an unexpired entry in the IP ban registry and with 'freeze' if it has none;
\* reaching FREEZE sets freezeUntil to now + 5 s.
FrozenOrBannedRejected ==
    \A c \in ConnIds, opcode \in AnyOpcodes :
        (IsOpen(c) /\ c \in DOMAIN players) =>
            /\ now < players[c].bannedUntil =>
                   ~NextReturn(c, opcode).allowed /\ NextReturn(c, opcode).action = "ban"
            /\ (~(now < players[c].bannedUntil) /\ now < players[c].freezeUntil) =>
                   /\ ~NextReturn(c, opcode).allowed
                   /\ NextReturn(c, opcode).action =
                          IF conns[c].ip \in DOMAIN ipBans /\ now < ipBans[conns[c].ip]
                          THEN "ban" ELSE "freeze"
            /\ JustFrozen(c) => players[c].freezeUntil = vlast[c] + 5 * MsPerSecond

\* a connection frozen by its last violation, a millisecond before the freeze ends,
\* whose bucket has refilled to more than a token and whose address is not banned
FrozenOrBannedRejectedWitness ==
    \E c \in ConnIds :
        /\ IsOpen(c) /\ JustFrozen(c)
        /\ now + 1 = players[c].freezeUntil
        /\ ~(now < players[c].bannedUntil)
        /\ conns[c].ip \notin DOMAIN ipBans
        /\ RefilledLevel(players[c].buckets["M"], now) >= MsPerSecond
        /\ NextReturn(c, "M").action = "freeze"

----------------------------------------------------------------------------
(* The IP ban registry *)

\* C5: when the escalation of a connection reaches BAN at time t, its address is in
\* the IP ban registry until t + 5 minutes, and until then every checkLimit with that
\* address returns 'ban', for every connection id, new ones included, and every
\* opcode, also after removePlayer or cleanup has discarded the state of the
\* connection that was banned.
IpBanHolds ==
    /\ \A b \in banLog :
           now < b.at + 5 * 60 * MsPerSecond =>
               /\ b.ip \in DOMAIN ipBans
               /\ ipBans[b.ip] = b.at + 5 * 60 * MsPerSecond
               /\ \A c \in ConnIds, opcode \in AnyOpcodes :
                      LET ret == CheckLimit(players, ipBans, c, b.ip, opcode, now).ret
                      IN ~ret.allowed /\ ret.action = "ban"
    /\ \A c \in ConnIds :
           (vfirst[c] # NoCall /\ vfirst[c].ipBanned) => ~vfirst[c].allowed

\* the banned connection has closed, its state is gone, and a connection accepted
\* from the same address during the ban has had its first message rejected
IpBanHoldsWitness ==
    \E b \in banLog, c \in ConnIds :
        /\ now < b.at + 5 * 60 * MsPerSecond
        /\ ~conns[b.by].open /\ b.by \notin DOMAIN players
        /\ c # b.by /\ IsOpen(c) /\ conns[c].ip = b.ip
        /\ accepted.id = c /\ accepted.ipBanned
        /\ vfirst[c] # NoCall /\ ~vfirst[c].allowed

\* C6: an address with an unexpired entry in the IP ban registry of the rate limiter
\* is refused when it opens a connection: no connection is accepted from it.
BannedAddressRefused ==
    accepted.op = "connection" => ~accepted.ipBanned

\* C7: the first checkLimit of a fresh connection whose address is not banned, for an
\* opcode that has no entry in OPCODE_LIMITS, is allowed (it gets the default
\* bucket).
UnlistedOpcodeAllowed ==
    \A c \in ConnIds :
        (/\ vfirst[c] # NoCall
         /\ vfirst[c].opcode \notin DOMAIN OPCODE_LIMITS
         /\ ~vfirst[c].ipBanned) => vfirst[c].allowed

----------------------------------------------------------------------------
(* Sessions *)

\* C8: validateSession on a stored session reports valid exactly when
\* now < expiresAt and now - lastActivity < idleTimeout (30 min).
ValidExactlyWithinLimits ==
    (sret.op = "validateSession" /\ sret.stored) =>
        sret.ok = (/\ sret.at < sret.expiresAt
                   /\ sret.at - sret.lastActivity < 30 * 60 * MsPerSecond)

\* validateSession(token) would report valid now
Active(token) == ValidateSession(sessions, userSessionMap, token, now).ret.valid

\* C9: at any time at most one session token of a userId is ACTIVE: after a
\* successful login every token issued earlier to that userId is invalid.
SingleActiveSession ==
    \A userId \in UserIds :
        Cardinality({token \in Issued : issuedTo[token] = userId /\ Active(token)}) <= 1

\* C10: a token that was never issued is not stored, and once validateSession or
\* refreshSession has reported a token invalid the token is not stored again: every
\* later validateSession and refreshSession for it is unsuccessful, whatever
\* happened in between.
InvalidStaysInvalid ==
    /\ DOMAIN sessions \subseteq Issued
    /\ \A token \in reported :
           /\ token \notin DOMAIN sessions
           /\ ~ValidateSession(sessions, userSessionMap, token, now).ret.valid
           /\ ~RefreshSession(sessions, userSessionMap, token, now).ret.success
    /\ (sret.op \in {"validateSession", "refreshSession", "connection"}
           /\ sret.token \in reported)
           => ~sret.ok

\* a token that was reported invalid is refreshed in vain at a later time, after
\* its user has logged in again and holds a stored session
InvalidStaysInvalidWitness ==
    \E token \in reported, newer \in DOMAIN sessions :
        /\ newer > token /\ sessions[newer].userId = issuedTo[token]
        /\ sessions[newer].createdAt < now
        /\ sret.op = "refreshSession" /\ sret.token = token /\ ~sret.ok
        /\ sret.reason = "Session not found"

InvalidateUserRemovesAll ==
    sret.op = "invalidateUserSessions" =>
        LET own == {token \in DOMAIN sret.before : sret.before[token].userId = sret.userId}
        IN /\ sret.ok /\ sret.count = Cardinality(own)
           /\ sret.userId \notin DOMAIN userSessionMap
           /\ \A token \in own :
                  /\ token \notin DOMAIN sessions
                  /\ ValidateSession(sessions, userSessionMap, token, now).ret.reason
                         = "Session not found"
           /\ DOMAIN sessions = DOMAIN sret.before \ own
           /\ \A token \in DOMAIN sessions : sessions[token] = sret.before[token]
           /\ \A other \in DOMAIN userSessionMap :
                  userSessionMap[other] =
                      {token \in DOMAIN sessions : sessions[token].userId = other}

\* the session of a user was removed while another user holds one, which stays
InvalidateUserRemovesAllWitness ==
    /\ sret.op = "invalidateUserSessions" /\ sret.count = 1
    /\ \E token \in DOMAIN sessions : sessions[token].userId # sret.userId

----------------------------------------------------------------------------
(* Claims on the packet validator *)

\* C13: validatePacket never lets an exception out: for every opcode and every
\* payload it returns a result whose valid is a boolean; an exception raised
\* inside a schema's validate comes back as valid = false; an opcode outside the
\* catalogue is rejected with the reason 'Unknown opcode'.
ValidatePacketNeverThrows ==
    vret.op = "validatePacket" =>
        /\ ~vret.result.thrown
        /\ vret.result.valid \in BOOLEAN
        /\ (vret.opcode \in VALID_OPCODES /\ SchemaValidate(vret.opcode, vret.data).thrown)
               => /\ ~vret.result.valid
                  /\ vret.result.sanitizedData = JsUndefined
                  /\ validationStats.failed = vret.before.failed + 1
        /\ vret.opcode \notin VALID_OPCODES
               => /\ ~vret.result.valid
                  /\ vret.result.reason = "Unknown opcode"
        /\ validationStats.total = vret.before.total + 1

\* a SPAWN packet whose element cannot be spread, handed to a validator that has
\* counted a packet of an inherited name before
ValidatePacketNeverThrowsWitness ==
    /\ vret.op = "validatePacket"
    /\ vret.opcode = OPCODES.SPAWN
    /\ vret.data = JsArray(<<JsRevoked>>)
    /\ vret.result.reason = "Validation error: TypeError"
    /\ vret.before.total = 1
    /\ vret.before.byOpcode = EmptyMap

InRange(v, min, max) == v.kind = "number" /\ min.val <= v.val /\ v.val <= max.val

\* a string no longer than n that sanitizing leaves as it is
Clean(v, n) ==
    /\ v.kind = "string"
    /\ Len(v.val) <= n
    /\ \A i \in DOMAIN v.val : v.val[i] \notin HtmlChars \cup ControlChars
    /\ v.val # <<>> => v.val[1] \notin Whitespace /\ v.val[Len(v.val)] \notin Whitespace

PassThrough ==
    {OPCODES.PING, OPCODES.LEAVE_CLAN, OPCODES.MAP_PING, OPCODES.RESET_MOVE,
     OPCODES.CREATE_PARTY}

\* the payload is in the domain its schema declares: every field it reads is of a
\* type the schema takes and within the bounds the schema clamps to
Within(opcode, data) ==
    \/ opcode \in PassThrough
    \/ /\ opcode \in VALID_OPCODES
       /\ data.kind = "array"
       /\ LET d == data.val
              Text(n) == Len(d) >= 1 /\ Clean(d[1], n) /\ d[1].val # <<>>
              Credentials == /\ Len(d) >= 2
                             /\ Clean(d[1], MAX_USERNAME_LENGTH) /\ Len(d[1].val) >= 4
                             /\ d[2].kind = "string"
                             /\ Len(d[2].val) >= 8 /\ Len(d[2].val) <= MAX_PASSWORD_LENGTH
          IN CASE opcode = OPCODES.SPAWN ->
                      /\ Len(d) >= 1
                      /\ \/ d[1] = JsNull
                         \/ /\ d[1].kind = "object"
                            /\ d[1].val.name = JsUndefined \/ Clean(d[1].val.name, MAX_NAME_LENGTH)
                            /\ d[1].val.skin = JsUndefined
                               \/ InRange(d[1].val.skin, JsNumber(0), JsNumber(9))
               [] opcode = OPCODES.MOVE_DIR ->
                      At(d, 1) \in {JsUndefined, JsNull} \/ InRange(At(d, 1), MinusTwoPi, TwoPi)
               [] opcode = OPCODES.ATTACK ->
                      /\ At(d, 1) \in {JsUndefined, JsNumber(0), JsNumber(1)}
                      /\ At(d, 2) = JsUndefined \/ InRange(At(d, 2), MinusTwoPi, TwoPi)
               [] opcode = OPCODES.AUTO_GATHER -> TRUE
               [] opcode = OPCODES.DIRECTION ->
                      Len(d) >= 1 /\ InRange(d[1], MinusTwoPi, TwoPi)
               [] opcode = OPCODES.SELECT_ITEM ->
                      Len(d) >= 1 /\ InRange(d[1], JsNumber(0), JsNumber(100))
               [] opcode = OPCODES.STORE ->
                      /\ Len(d) >= 2
                      /\ d[1] \in {JsNumber(0), JsNumber(1)}
                      /\ InRange(d[2], JsNumber(0), JsNumber(100))
               [] opcode = OPCODES.UPGRADE ->
                      /\ Len(d) >= 1
                      /\ \/ InRange(d[1], JsNumber(0), JsNumber(100))
                         \/ /\ Clean(d[1], Len(d[1].val))
                            /\ InRange(ParseInt(d[1].val), JsNumber(0), JsNumber(100))
               [] opcode = OPCODES.CHAT -> Text(MAX_CHAT_LENGTH)
               [] opcode = OPCODES.PERF_DATA ->
                      /\ At(d, 1) = JsUndefined \/ InRange(At(d, 1), JsNumber(0), JsNumber(100))
                      /\ At(d, 2) = JsUndefined
                         \/ InRange(At(d, 2), JsNumber(0 - 1), JsNumber(9999))
               [] opcode = OPCODES.CREATE_CLAN -> Text(MAX_CLAN_NAME_LENGTH)
               [] opcode = OPCODES.JOIN_CLAN_REQUEST ->
                      Len(d) >= 1 /\ (Clean(d[1], MAX_CLAN_NAME_LENGTH) \/ d[1].kind = "number")
               [] opcode = OPCODES.CLAN_MANAGE -> Len(d) >= 1 /\ d[1].kind = "number"
               [] opcode = OPCODES.TELEPORT ->
                      /\ Len(d) >= 2
                      /\ InRange(d[1], JsNumber(0), JsNumber(20000))
                      /\ InRange(d[2], JsNumber(0), JsNumber(20000))
               [] opcode = OPCODES.AUTH -> Credentials
               [] opcode = OPCODES.REGISTER ->
                      /\ Len(d) >= 4
                      /\ Credentials
                      /\ d[4].kind = "string" /\ EmailRegexTest(d[4].val)
               [] opcode = OPCODES.JOIN_PARTY -> Text(MAX_PARTY_CODE_LENGTH)
               [] OTHER -> FALSE

\* the payload holds the fields its schema writes and nothing else, each as the
\* type the schema writes it
Exact(opcode, data) ==
    \/ opcode \in PassThrough
    \/ /\ data.kind = "array"
       /\ LET d == data.val IN
          CASE opcode = OPCODES.SPAWN -> Len(d) = 1 /\ d[1].kind = "object"
            [] opcode \in {OPCODES.ATTACK, OPCODES.SELECT_ITEM, OPCODES.CLAN_MANAGE} ->
                   Len(d) \in 1..2
            [] opcode = OPCODES.STORE -> Len(d) \in 2..3
            [] opcode = OPCODES.UPGRADE -> Len(d) = 1 /\ d[1].kind = "number"
            [] opcode \in {OPCODES.PERF_DATA, OPCODES.TELEPORT} ->
                   Len(d) = 2 /\ d[1].kind = "number" /\ d[2].kind = "number"
            [] opcode = OPCODES.AUTH -> Len(d) = 2
            [] opcode = OPCODES.REGISTER ->
                   /\ Len(d) = 4
                   /\ Clean(d[3], MAX_DISPLAY_NAME_LENGTH) /\ d[3].val # <<>>
                   /\ d[4].kind = "string" /\ d[4].val = ToLowerCase(d[4].val)
            [] OTHER -> Len(d) = 1

\* the places of a payload the schema documents as flags, coerced with !!
Flags(opcode) ==
    CASE opcode = OPCODES.AUTO_GATHER -> {1}
      [] opcode \in {OPCODES.SELECT_ITEM, OPCODES.CLAN_MANAGE} -> {2}
      [] opcode = OPCODES.STORE -> {3}
      [] OTHER -> {}

Coerced(opcode, data) ==
    IF data.kind # "array" THEN data
    ELSE JsArray([i \in DOMAIN data.val |->
                     IF i \in Flags(opcode) THEN JsBoolean(Truthy(data.val[i]))
                     ELSE data.val[i]])

\* C14 as stated: for every opcode of the catalogue, a payload whose fields lie
\* within all the bounds its schema declares, and hold no character sanitizing
\* removes, is accepted with sanitizedData equal to the input apart from the
\* boolean coercion of flags.
WithinBoundsUnchanged ==
    (vret.op = "validatePacket" /\ Within(vret.opcode, vret.data)) =>
        /\ vret.result.valid
        /\ vret.result.sanitizedData = Coerced(vret.opcode, vret.data)

\* C14: for every opcode of the catalogue, a payload within the bounds its schema
\* declares that holds exactly the fields the schema writes, each of the type it
\* writes (the spawn data an object, the upgrade item a number, both performance
\* figures present, the display name a non-empty clean string, the email in lower
\* case, no element beyond the schema's fields), is accepted with sanitizedData
\* equal to the input apart from the boolean coercion of flags.
ExactPayloadUnchanged ==
    (/\ vret.op = "validatePacket"
     /\ Within(vret.opcode, vret.data)
     /\ Exact(vret.opcode, vret.data)) =>
        /\ vret.result.valid
        /\ vret.result.sanitizedData = Coerced(vret.opcode, vret.data)

\* a SELECT_ITEM packet whose flag is a number: accepted, the flag now a boolean
ExactPayloadUnchangedWitness ==
    /\ vret.op = "validatePacket"
    /\ vret.opcode = OPCODES.SELECT_ITEM
    /\ Within(vret.opcode, vret.data)
    /\ Exact(vret.opcode, vret.data)
    /\ Len(vret.data.val) = 2
    /\ vret.result.valid
    /\ vret.result.sanitizedData # vret.data
    /\ vret.result.sanitizedData.val[1] = vret.data.val[1]

\* C15: sanitizeString is idempotent, sanitizeString(sanitizeString(s, n), n) =
\* sanitizeString(s, n), and its output is no longer than n, holds none of
\* < > " ' & and no control character, and neither starts nor ends with white
\* space.
SanitizeIdempotent ==
    sanit.op = "sanitizeString" =>
        /\ sanit.calls >= 1 =>
              /\ sanit.once.kind = "string"
              /\ Len(sanit.once.val) <= sanit.maxLength
              /\ \A i \in DOMAIN sanit.once.val :
                     sanit.once.val[i] \notin HtmlChars \cup ControlChars
              /\ sanit.once.val # <<>> =>
                     /\ sanit.once.val[1] \notin Whitespace
                     /\ sanit.once.val[Len(sanit.once.val)] \notin Whitespace
        /\ sanit.calls = 2 => sanit.twice = sanit.once

\* a string cut at n, with a removed character and white space left at an end by
\* the removal, sanitized twice
SanitizeIdempotentWitness ==
    /\ sanit.op = "sanitizeString"
    /\ sanit.calls = 2
    /\ Len(sanit.str.val) > sanit.maxLength
    /\ sanit.maxLength = 3
    /\ sanit.str.val[1] = "<"
    /\ sanit.str.val[2] = " "
    /\ sanit.once.val = <<"a">>
    /\ sanit.twice = sanit.once

\* the fields of a payload its schema declares numeric with a range: the place in
\* the array (for SPAWN the skin of the object at that place) and the range
NumericFields(opcode) ==
    CASE opcode = OPCODES.SPAWN -> {[at |-> 1, min |-> JsNumber(0), max |-> JsNumber(9)]}
      [] opcode \in {OPCODES.MOVE_DIR, OPCODES.DIRECTION} ->
             {[at |-> 1, min |-> MinusTwoPi, max |-> TwoPi]}
      [] opcode = OPCODES.ATTACK -> {[at |-> 2, min |-> MinusTwoPi, max |-> TwoPi]}
      [] opcode \in {OPCODES.SELECT_ITEM, OPCODES.UPGRADE} ->
             {[at |-> 1, min |-> JsNumber(0), max |-> JsNumber(100)]}
      [] opcode = OPCODES.STORE -> {[at |-> 2, min |-> JsNumber(0), max |-> JsNumber(100)]}
      [] opcode = OPCODES.PERF_DATA ->
             {[at |-> 1, min |-> JsNumber(0), max |-> JsNumber(100)],
              [at |-> 2, min |-> JsNumber(0 - 1), max |-> JsNumber(9999)]}
      [] opcode = OPCODES.TELEPORT ->
             {[at |-> 1, min |-> JsNumber(0), max |-> JsNumber(20000)],
              [at |-> 2, min |-> JsNumber(0), max |-> JsNumber(20000)]}
      [] OTHER -> {}

FieldAt(opcode, data, at) ==
    IF data.kind # "array" THEN JsUndefined
    ELSE IF opcode # OPCODES.SPAWN THEN At(data.val, at)
    ELSE IF At(data.val, at).kind = "object" THEN At(data.val, at).val.skin
    ELSE JsUndefined

\* C16: in every opcode schema a numeric field that is present but is not a finite
\* number (NaN, an infinity) makes validatePacket fail, and a finite numeric field
\* comes back clamped into the declared [min, max].
NonFiniteRejectedFiniteClamped ==
    (vret.op = "validatePacket" /\ vret.opcode \in VALID_OPCODES) =>
        \A f \in NumericFields(vret.opcode) :
            LET given == FieldAt(vret.opcode, vret.data, f.at) IN
            /\ given.kind \in {"NaN", "Infinity"} => ~vret.result.valid
            /\ (given.kind = "number" /\ vret.result.valid) =>
                   InRange(FieldAt(vret.opcode, vret.result.sanitizedData, f.at),
                           f.min, f.max)

----------------------------------------------------------------------------
(* The anti-cheat controller's enforcement *)

\* the last call was checkAndEnforce
Enforced == acret.op = "checkAndEnforce"

\* C17: the action checkAndEnforce returns is NONE below a total of 50, WARNING
\* from 50 to below 70, KICK from 70 to below 90 and BAN from 90 on, where the
\* total is the one just stored for the player, computed from what the
\* analyzers hold now; nothing else, and no earlier count, has a say
ActionFollowsTotal ==
    Enforced =>
        LET score == antiCheat.playerScores[acret.playerId]
            total == acret.result.score
        IN /\ total = score.total
           /\ score.components.telemetry
                 = Points(antiCheat.telemetry[acret.playerId].suspicionScore)
           /\ score.components.movement
                 = AnalyzeMovementPatterns(antiCheat.movement, acret.playerId)
                      .results.suspicionScore
                   + antiCheat.movement[acret.playerId].suspicionScore
           /\ score.components.actions
                 = Points(antiCheat.actions[acret.playerId].suspicionScore)
           /\ 20 * total = Min(20 * Points(100),
                               6 * score.components.telemetry
                               + 5 * score.components.movement
                               + 4 * score.components.activity
                               + 5 * score.components.actions)
           /\ acret.result.action =
                 IF total < Points(50) THEN "NONE"
                 ELSE IF total < Points(70) THEN "WARNING"
                 ELSE IF total < Points(90) THEN "KICK"
                 ELSE "BAN"

\* a player warned before is kicked
ActionFollowsTotalWitness ==
    /\ Enforced
    /\ acret.playerId \in DOMAIN acret.before
    /\ acret.before[acret.playerId].warningCount > 0
    /\ acret.result.action = "KICK"

\* no total that checkAndEnforce computes lies on a threshold
NoTotalOnThreshold ==
    Enforced => acret.result.score \notin {Points(50), Points(70), Points(90)}

----------------------------------------------------------------------------
(* The controller's bans *)

\* a record under the key that has not reached its expiry at time t
LiveRecord(bannedPlayers, key, t) ==
    key \in DOMAIN bannedPlayers /\ t < bannedPlayers[key].expiresAt

\* banPlayer has stored its two records, both expiring 24 h after the call
BanStored ==
    acret.op = "banPlayer" =>
        /\ {acret.playerId, IpKey(acret.ipAddress)} \subseteq DOMAIN antiCheat.bannedPlayers
        /\ antiCheat.bannedPlayers[acret.playerId].expiresAt = acret.at + 24 * 60 * 60 * 1000
        /\ antiCheat.bannedPlayers[IpKey(acret.ipAddress)].expiresAt
              = acret.at + 24 * 60 * 60 * 1000

BanHeldToTheLastWitness ==
    /\ acret.op = "isBanned"
    /\ acret.key \in AcPlayers
    /\ acret.key \in DOMAIN acret.before
    /\ acret.at = acret.before[acret.key].expiresAt - 1
    /\ acret.result

----------------------------------------------------------------------------
(* The stored scores *)

\* twenty times 0.30 telemetry + 0.25 movement + 0.20 activity + 0.25 actions
TwentyfoldWeighted(components) ==
    6 * components.telemetry + 5 * components.movement
        + 4 * components.activity + 5 * components.actions

\* C19: in every reachable state the total of every tracked player is
\* min(100, 0.30 telemetry + 0.25 movement + 0.20 activity + 0.25 actions) of
\* the components stored with it: after updatePlayerScore, after
\* checkAndEnforce and after every decay tick
TotalIsWeightedSum ==
    \A playerId \in DOMAIN antiCheat.playerScores :
        LET score == antiCheat.playerScores[playerId]
        IN 20 * score.total
              = IF TwentyfoldWeighted(score.components) > 20 * 100 * ScoreUnit
                THEN 20 * 100 * ScoreUnit
                ELSE TwentyfoldWeighted(score.components)

\* a decay tick has just run over a player whose total is still above zero,
\* and whose score had been recomputed with nonzero components before
TotalIsWeightedSumWitness ==
    /\ acret.op = "decayAllScores"
    /\ decays >= 2
    /\ \E playerId \in DOMAIN antiCheat.playerScores :
          /\ antiCheat.playerScores[playerId].total > 0
          /\ antiCheat.playerScores[playerId].components.telemetry > 0
          /\ antiCheat.playerScores[playerId].components.movement > 0

\* updatePlayerScore has just stored a nonzero total
TotalRecomputedWitness ==
    /\ acret.op = "updatePlayerScore"
    /\ antiCheat.playerScores[acret.playerId].total > 0

\* C20: in every reachable state each of the four component scores of a
\* tracked player lies in [0, 100], and so does the total
ComponentsWithinHundred ==
    \A playerId \in DOMAIN antiCheat.playerScores :
        LET score == antiCheat.playerScores[playerId]
        IN /\ \A c \in DOMAIN score.components :
                 0 <= score.components[c] /\ score.components[c] <= 100 * ScoreUnit
           /\ 0 <= score.total /\ score.total <= 100 * ScoreUnit

\* what does hold of the stored scores: the total within [0, 100], movement,
\* activity and actions within [0, 100], telemetry within [0, 160]
ComponentsWithinReach ==
    \A playerId \in DOMAIN antiCheat.playerScores :
        LET score == antiCheat.playerScores[playerId]
        IN /\ 0 <= score.total /\ score.total <= 100 * ScoreUnit
           /\ 0 <= score.components.telemetry
           /\ score.components.telemetry <= 160 * ScoreUnit
           /\ \A c \in {"movement", "activity", "actions"} :
                 0 <= score.components[c] /\ score.components[c] <= 100 * ScoreUnit

\* updatePlayerScore or checkAndEnforce has just stored a telemetry component
\* above 100
TelemetryAboveHundred ==
    /\ acret.op \in {"updatePlayerScore", "checkAndEnforce"}
    /\ antiCheat.playerScores[acret.playerId].components.telemetry > 100 * ScoreUnit

----------------------------------------------------------------------------
(* The message handler's stages *)

StageOrder == <<"size", "session", "ratelimit", "validate", "dispatch">>
HandlerOrder == <<"session", "size", "ratelimit", "validate", "dispatch">>

IsPrefixOf(s, t) == Len(s) <= Len(t) /\ \A i \in DOMAIN s : s[i] = t[i]

\* C21: every message passes the stages in the order size check, session
\* refresh, rate limiter, packet validator, dispatch, as far as it gets; and it
\* is dispatched only if it passed the size check, was allowed by the rate
\* limiter and was reported valid by the validator
StagesInOrder ==
    mret.op = "message" =>
        /\ IsPrefixOf(mret.stages, StageOrder)
        /\ mret.dispatched => mret.sizeOk /\ mret.allowed /\ mret.valid

\* what the handler does: the session is refreshed first, the size is checked
\* after it; the rest is as stated
StagesInHandlerOrder ==
    mret.op = "message" =>
        /\ IsPrefixOf(mret.stages, HandlerOrder)
        /\ mret.dispatched => mret.sizeOk /\ mret.allowed /\ mret.valid
        /\ mret.dispatched <=> mret.stages = HandlerOrder

\* a message too large has refreshed a session that was active
OversizedRefreshed ==
    /\ mret.op = "message"
    /\ mret.end = "oversized"
    /\ mret.refreshed
    /\ sessions[mret.sessionToken].lastActivity > mret.lastActivity

\* the rate limiter has turned a message away, and the validator another
TurnedAway == mret.op = "message" /\ mret.end = "rate limit" /\ ~mret.dispatched
ReportedInvalid == mret.op = "message" /\ mret.end = "invalid" /\ ~mret.dispatched

----------------------------------------------------------------------------
(* What a closed connection leaves behind *)

Closed(c) == c \in DOMAIN handlers /\ handlers[c].socket = "closed"

ResumedAfterClose ==
    /\ mret.op = "authResume"
    /\ Closed(mret.conn)
    /\ handlers[mret.conn].applied # <<>>

\* a move of a living player has just left profiles in the analyzers
ProfilesKept ==
    /\ mret.op = "message"
    /\ mret.conn \in DOMAIN players
    /\ mret.conn \in DOMAIN antiCheat.telemetry
    /\ mret.conn \in DOMAIN antiCheat.activity

----------------------------------------------------------------------------
(* The periodic session check *)

\* a connection that presented a session token, not closed yet, whose session
\* is not active at time t: expired, or no longer in the store
SessionOver(c, t) ==
    /\ c \in DOMAIN handlers
    /\ handlers[c].socket # "closed"
    /\ handlers[c].sessionToken # 0
    /\ ~SessionActive(sessions, handlers[c].sessionToken, t)

\* C23: a connection that presented a session token is closed some time after
\* the session's idle or absolute timeout has passed, whether further messages
\* arrive or not
ExpiredSessionClosed ==
    \A c \in HandlerConns : SessionOver(c, now) ~> Closed(c)

\* the timeout set by a session check that found the session expired has just
\* closed a socket that was open: no message had closed it, no client had left
ClosedByCheck ==
    /\ mret.op = "closeTimer"
    /\ handlers[mret.conn].socket = "closing"
    /\ handlers[mret.conn].playerSocket
    /\ handlers[mret.conn].sessionUserId # 0

\* the close of a socket that the session check had closed is done
ClosedAfterCheck ==
    /\ mret.op = "close"
    /\ mret.begun
    /\ handlers[mret.conn].playerSocket
    /\ handlers[mret.conn].received = 0

----------------------------------------------------------------------------
(* The order in which messages take effect *)

\* C24: on every connection the changes that messages make to the player's
\* state take effect in the order in which the messages were received, also
\* those that a handler makes after an await
AppliedInOrder ==
    \A c \in DOMAIN handlers :
        \A i, j \in DOMAIN handlers[c].applied :
            i < j => handlers[c].applied[i] < handlers[c].applied[j]

\* an AUTH handler has just set the player's account after a later message, a
\* move, had changed the player's state
AuthAfterLaterMove ==
    /\ mret.op = "authResume"
    /\ mret.account # 0
    /\ handlers[mret.conn].account = mret.account
    /\ \E i \in DOMAIN handlers[mret.conn].applied :
          handlers[mret.conn].applied[i] > mret.seq

\* up to its first await every handler runs before the next message's: the
\* message just handled is the last one received
HandledInOrder ==
    mret.op = "message" => mret.seq = handlers[mret.conn].received

----------------------------------------------------------------------------
(* Messages of a connection whose session is over *)

\* C25: a message of a connection that presented a session token, arriving
\* when the session is not active (expired, invalidated or unknown), gets
\* neither to the rate limiter nor to the validator nor to the dispatch
AdmittedOnlyWhileActive ==
    (mret.op = "message" /\ mret.sessionToken # 0 /\ ~mret.active) =>
        /\ ~mret.dispatched
        /\ \A i \in DOMAIN mret.stages :
              mret.stages[i] \notin {"ratelimit", "validate", "dispatch"}

\* a message has been dispatched although refreshSession had just reported
\* the session of its connection gone
DispatchedAfterExpiry ==
    /\ mret.op = "message"
    /\ mret.sessionToken # 0
    /\ ~mret.active
    /\ ~mret.refreshed
    /\ mret.dispatched
    /\ handlers[mret.conn].sessionUserId # 0

\* the messages of a connection whose session is active do refresh it
RefreshedWhileActive ==
    (mret.op = "message" /\ mret.sessionToken # 0) => (mret.refreshed <=> mret.active)

----------------------------------------------------------------------------
(* rateLimiter.js: the escalation level under violations and their decay *)

\* the player of the first connection, from the first address
EscPlayer == Earliest(ConnIds)
EscAddr == Earliest(IPs)
MaxViolations == 31
MaxRests == 17

InitEsc == InitRL

\* a call now would find a token in the player's bucket of "M"
WithinRate ==
    /\ EscPlayer \in DOMAIN players
    /\ ~IsFrozen(players[EscPlayer], now) /\ ~IsBanned(players[EscPlayer], now)
    /\ "M" \in DOMAIN players[EscPlayer].buckets
    /\ Refill(players[EscPlayer].buckets["M"], now).tokens >= MsPerSecond

\* rateLimiter.checkLimit(playerId, ipAddress, "M"), called on the exported
\* rateLimiter: at any moment by a caller that has not rested yet, within the
\* rate by one that has
EscCheck ==
    /\ EscPlayer \in DOMAIN players => players[EscPlayer].violations < MaxViolations
    /\ ticks > 0 => WithinRate
    /\ \E r \in {CheckLimit(players, ipBans, EscPlayer, EscAddr, "M", now)} :
          /\ players' = r.players
          /\ ipBans' = r.ipBans
    /\ UNCHANGED <<now, ticks, tbVars, sessVars, pvVars, acVars, chVars, conns, accepted,
                   vcount, vlast, vnogap, vlevel, vprev, vaction, vfirst, banLog>>

\* the caller waits until a freeze or a ban is over
EscThaw ==
    /\ EscPlayer \in DOMAIN players
    /\ IsFrozen(players[EscPlayer], now) \/ IsBanned(players[EscPlayer], now)
    /\ now' = Max(players[EscPlayer].freezeUntil, players[EscPlayer].bannedUntil)
    /\ UNCHANGED <<ticks, tbVars, rlVars, sessVars, pvVars, acVars, chVars>>

\* the caller rests until the last violation is older than the decay window of
\* decayViolations; at most MaxRests times
EscRest ==
    /\ ticks < MaxRests
    /\ EscPlayer \in DOMAIN players
    /\ players[EscPlayer].violations > 0
    /\ ~IsFrozen(players[EscPlayer], now) /\ ~IsBanned(players[EscPlayer], now)
    /\ now' = Max(now, players[EscPlayer].lastViolation + VIOLATION_DECAY_TIME * 2) + 1
    /\ ticks' = ticks + 1
    /\ UNCHANGED <<tbVars, rlVars, sessVars, pvVars, acVars, chVars>>

NextEsc == EscCheck \/ EscThaw \/ EscRest

SpecEsc == InitEsc /\ [][NextEsc]_vars

\* the level the thresholds assign to a number of violations
LevelOf(violations) ==
    IF violations >= ESCALATION_THRESHOLDS.BAN THEN ESCALATION_LEVELS.BAN
    ELSE IF violations >= ESCALATION_THRESHOLDS.DISCONNECT THEN ESCALATION_LEVELS.DISCONNECT
    ELSE IF violations >= ESCALATION_THRESHOLDS.FREEZE THEN ESCALATION_LEVELS.FREEZE
    ELSE IF violations >= ESCALATION_THRESHOLDS.WARNING THEN ESCALATION_LEVELS.WARNING
    ELSE ESCALATION_LEVELS.NONE

\* C26: no checkLimit call lowers the escalation level of a player by more
\* than one level
LevelStepsDownByOne ==
    [][\A p \in DOMAIN players \cap DOMAIN players' :
          players'[p].escalationLevel >= players[p].escalationLevel - 1]_vars

\* C27: in every state of the rate limiter the escalation level of a player is
\* the level the thresholds assign to the player's violations
LevelFollowsThresholds ==
    \A p \in DOMAIN players :
        players[p].escalationLevel = LevelOf(players[p].violations)

\* a player at DISCONNECT with fewer than 30 violations
DisconnectBelowThreshold ==
    /\ EscPlayer \in DOMAIN players
    /\ players[EscPlayer].escalationLevel = ESCALATION_LEVELS.DISCONNECT
    /\ players[EscPlayer].violations = ESCALATION_THRESHOLDS.DISCONNECT - 1

\* what does hold: the level is never below the level of the violations, and
\* is that level up to FREEZE
LevelAtLeastThresholds ==
    \A p \in DOMAIN players :
        /\ players[p].escalationLevel >= LevelOf(players[p].violations)
        /\ players[p].escalationLevel <= ESCALATION_LEVELS.FREEZE =>
               players[p].escalationLevel = LevelOf(players[p].violations)

----------------------------------------------------------------------------
(* rateLimiter.js: the calls a bucket lets through *)

GrantOpcodes == {"M", "K"}
GrantLapses == {500, 1000, 3000}
MaxGrants == 12
MaxGrantTicks == 3
MaxDenials == 2

Granted(opcode) == IF opcode \in DOMAIN grants THEN grants[opcode] ELSE <<>>

\* rateLimiter.checkLimit(playerId, ipAddress, opcode) for one connection, which
\* keeps to the opcode of its first call; the time of the call is noted when
\* the answer is allowed: true
GrantCheck(opcode) ==
    /\ DOMAIN grants \subseteq {opcode}
    /\ EscPlayer \in DOMAIN players => players[EscPlayer].violations < MaxDenials
    /\ Len(Granted(opcode)) < MaxGrants
    /\ \E r \in {CheckLimit(players, ipBans, EscPlayer, EscAddr, opcode, now)} :
          /\ players' = r.players
          /\ ipBans' = r.ipBans
          /\ grants' = IF r.ret.allowed
                       THEN MapSet(grants, opcode, Append(Granted(opcode), now))
                       ELSE grants
    /\ UNCHANGED <<now, ticks, tbVars, sessVars, pvVars, acVars, handlers, mret,
                   loginAttempts, userWebSocketMap, conns, accepted,
                   vcount, vlast, vnogap, vlevel, vprev, vaction, vfirst, banLog>>

\* the clock advances by d between two calls; at most MaxGrantTicks times
GrantTick(d) ==
    /\ ticks < MaxGrantTicks
    /\ now' = now + d
    /\ ticks' = ticks + 1
    /\ UNCHANGED <<tbVars, rlVars, sessVars, pvVars, acVars, chVars>>

NextGrant ==
    \/ \E opcode \in GrantOpcodes : GrantCheck(opcode)
    \/ \E d \in GrantLapses : GrantTick(d)

SpecGrant == InitRL /\ [][NextGrant]_vars

\* C28: for one connection and one opcode, the calls answered allowed: true
\* within any interval of T seconds are at most bucketSize + refillRate * T:
\* between the i-th and the j-th of them, both included, j - i + 1 calls in
\* (t[j] - t[i]) / 1000 seconds
GrantsWithinRate ==
    \A opcode \in DOMAIN grants :
        \A i, j \in DOMAIN grants[opcode] :
            i <= j =>
                (j - i + 1) * MsPerSecond
                    <= OpcodeConfig(opcode).bucketSize * MsPerSecond
                         + OpcodeConfig(opcode).refillRate
                             * (grants[opcode][j] - grants[opcode][i])

\* the bound is met: a burst has emptied the bucket of "M", calls have been
\* turned away, and every token refilled since has been spent as well
GrantsWithinRateWitness ==
    /\ "M" \in DOMAIN grants
    /\ Len(grants["M"]) > OpcodeConfig("M").bucketSize
    /\ players[EscPlayer].violations > 0
    /\ LET n == Len(grants["M"])
       IN n * MsPerSecond
              = OpcodeConfig("M").bucketSize * MsPerSecond
                  + OpcodeConfig("M").refillRate * (grants["M"][n] - grants["M"][1])

----------------------------------------------------------------------------
(* antiCheat/index.js: a score that decays and is not recomputed *)

MaxDecayRun == 75
DecayPlayer == "p1"

\* the components updatePlayerScore has stored for a player, in points: sums of
\* the findings of the telemetry analyzer (30, 25, 35, 30, 20, 20), of the
\* movement validator (40 a teleport, up to 30 a speed violation) and of the
\* activity monitor (20, 25, 30); the action validator's share is 0.  The
\* first has the total 40
DecayStarts ==
    {<<50, 60, 50>>, <<120, 0, 0>>, <<160, 100, 75>>, <<0, 30, 0>>, <<30, 0, 20>>,
     <<0, 3, 0>>, <<0, 0, 0>>}

StoredComponents(start) ==
    [telemetry |-> Points(start[1]), movement |-> Points(start[2]),
     activity |-> Points(start[3]), actions |-> 0]

\* updatePlayerScore has stored a score for one player, at StartTime
InitDecay ==
    /\ now = StartTime
    /\ ticks = 0
    /\ InitIdleBucket
    /\ InitLimiter
    /\ InitStore
    /\ InitValidator
    /\ InitHandlers
    /\ \E start \in DecayStarts :
          /\ antiCheat = [NewAntiCheat EXCEPT !.playerScores =
                MapSet(EmptyMap, DecayPlayer,
                       [total |-> WeightedTotal(StoredComponents(start)),
                        components |-> StoredComponents(start),
                        lastUpdate |-> StartTime, warningCount |-> 0, kickCount |-> 0])]
          /\ acret = [op |-> "updatePlayerScore", playerId |-> DecayPlayer,
                      start |-> WeightedTotal(StoredComponents(start))]
    /\ acCalls = 0
    /\ decays = 0
    /\ nextDecay = StartTime + SUSPICION_DECAY_INTERVAL
    /\ banHistory = {}

\* the decay timer fires and nothing else calls the controller: decayAllScores()
DecayRun ==
    /\ decays < MaxDecayRun
    /\ now' = nextDecay
    /\ nextDecay' = nextDecay + SUSPICION_DECAY_INTERVAL
    /\ decays' = decays + 1
    /\ antiCheat' = DecayAllScores(antiCheat)
    /\ acret' = [op |-> "decayAllScores", playerId |-> DecayPlayer, start |-> acret.start,
                 before |-> antiCheat.playerScores[DecayPlayer]]
    /\ UNCHANGED <<ticks, tbVars, rlVars, sessVars, pvVars, chVars, acCalls, banHistory>>

SpecDecay == InitDecay /\ [][DecayRun]_vars

\* C29: a decay tick either multiplies each component of a score, and so its
\* total, by 0.95 (to the rounding of the fixed-point numbers) and leaves a
\* total of at least 1 that is not greater than before, or, when the decayed total is below 1, sets the
\* total and the components to 0; a score of total 40 is 0 after
\* ceil(log(1/40) / log(0.95)) = 72 ticks and not before
DecaysToZero ==
    acret.op = "decayAllScores" =>
        LET before == acret.before
            after == antiCheat.playerScores[acret.playerId]
            decayedTotal == WeightedTotal([c \in DOMAIN before.components |->
                                              Decayed(before.components[c])])
        IN /\ after.total <= before.total
           /\ IF decayedTotal < Points(1)
              THEN after.total = 0 /\ after.components = NoComponents
              ELSE /\ after.total >= Points(1)
                   /\ 20 * after.total < 19 * before.total + 19
                   /\ 20 * after.total > 19 * before.total - 40
                   /\ \A c \in DOMAIN after.components :
                         /\ 20 * after.components[c] <= 19 * before.components[c]
                         /\ 20 * after.components[c] > 19 * before.components[c] - 20
           /\ acret.start = Points(40) =>
                 /\ decays >= 72 => after.total = 0
                 /\ decays < 72 => after.total >= Points(1)

\* the 72nd tick has just set a score to 0 that started at 40
DecaysToZeroWitness ==
    /\ acret.op = "decayAllScores"
    /\ acret.start = Points(40)
    /\ decays = 72
    /\ acret.before.total >= Points(1)
    /\ antiCheat.playerScores[DecayPlayer].total = 0
    /\ antiCheat.playerScores[DecayPlayer].components = NoComponents

----------------------------------------------------------------------------
(* antiCheat/index.js: the score of a player who has stopped *)

\* after 14 decays a total of at most 100 is below 50: 100 * 0.95^14 = 48.8
MaxQuietDecays == 14
MaxQuietCalls == 2
QuietPlayer == "p1"

\* the total the controller holds for the player, 0 when it holds none
HeldTotal(ac, playerId) ==
    IF playerId \in DOMAIN ac.playerScores THEN ac.playerScores[playerId].total ELSE 0

\* what a call notes: the total it returned, the total held before it, and the
\* total the first call returned since the player stopped
QuietNote(op, total) ==
    [op |-> op, playerId |-> QuietPlayer, total |-> total,
     held |-> HeldTotal(antiCheat, QuietPlayer),
     first |-> IF "first" \in DOMAIN acret THEN acret.first ELSE total]

\* antiCheat.updatePlayerScore(playerId), nothing recorded since the player stopped
QuietUpdate ==
    /\ acCalls < MaxQuietCalls
    /\ acCalls' = acCalls + 1
    /\ antiCheat' = UpdatePlayerScore(antiCheat, QuietPlayer, now)
    /\ acret' = QuietNote("updatePlayerScore", HeldTotal(antiCheat', QuietPlayer))
    /\ UNCHANGED <<now, ticks, tbVars, rlVars, sessVars, pvVars, chVars, decays, nextDecay,
                   banHistory>>

\* antiCheat.checkAndEnforce(playerId, socket, addr), nothing recorded since
QuietCheck ==
    /\ acCalls < MaxQuietCalls
    /\ acCalls' = acCalls + 1
    /\ \E r \in {CheckAndEnforce(antiCheat, QuietPlayer, AddrOf(QuietPlayer), now)} :
          /\ antiCheat' = r.ac
          /\ acret' = QuietNote("checkAndEnforce", r.result.score)
    /\ UNCHANGED <<now, ticks, tbVars, rlVars, sessVars, pvVars, chVars, decays, nextDecay,
                   banHistory>>

\* the decay timer fires: decayAllScores()
QuietDecay ==
    /\ decays < MaxQuietDecays
    /\ now' = nextDecay
    /\ nextDecay' = nextDecay + SUSPICION_DECAY_INTERVAL
    /\ decays' = decays + 1
    /\ antiCheat' = DecayAllScores(antiCheat)
    /\ acret' = IF "first" \in DOMAIN acret
                THEN [op |-> "decayAllScores", first |-> acret.first]
                ELSE [op |-> "decayAllScores"]
    /\ UNCHANGED <<ticks, tbVars, rlVars, sessVars, pvVars, chVars, acCalls, banHistory>>

\* The player has done what a script says and does nothing more
NextQuiet == QuietUpdate \/ QuietCheck \/ QuietDecay

SpecQuiet == InitAC /\ [][NextQuiet]_vars

Asked == acret.op \in {"updatePlayerScore", "checkAndEnforce"}

\* C30: once a player has recorded nothing through the decays that take any
\* total below the WARNING threshold, the total that updatePlayerScore and
\* checkAndEnforce return is below the WARNING threshold
QuietPlayerClears ==
    (Asked /\ decays = MaxQuietDecays) => acret.total < Points(SUSPICION_THRESHOLDS.WARNING)

\* a call returns a total of WARNING or more after the held total had decayed
\* below it
RestoredAfterDecay ==
    /\ Asked
    /\ decays = MaxQuietDecays
    /\ acret.held > 0
    /\ acret.held < Points(SUSPICION_THRESHOLDS.WARNING)
    /\ acret.total >= Points(SUSPICION_THRESHOLDS.WARNING)

\* every call returns the total the first call returned since the player
\* stopped, however many decays lie between them
QuietTotalReturns == Asked => acret.total = acret.first

----------------------------------------------------------------------------
(* antiCheat/actions.js: the score of the recorded violations *)

\* C31: a player of whom the action validator has recorded a violation has an
\* action suspicionScore above 0 and of at most 100, which analyzePlayer
\* reports and which updatePlayerScore stores as the actions component
ActionViolationScored ==
    \A p \in DOMAIN antiCheat.actions :
       antiCheat.actions[p].violations # <<>> =>
          /\ ActionAnalyzePlayer(antiCheat.actions, p).results.suspicionScore > 0
          /\ ActionAnalyzePlayer(antiCheat.actions, p).results.suspicionScore <= 100
          /\ (acret.op \in {"updatePlayerScore", "checkAndEnforce"} /\ acret.playerId = p) =>
                antiCheat.playerScores[p].components.actions
                   = Points(antiCheat.actions[p].suspicionScore)

\* a spending beyond the player's wood has just been recorded as a violation
SpendingViolationRecorded ==
    /\ acret.op = "validateResourceSpending"
    /\ ~acret.result.valid
    /\ acret.result.suspicionScore = 30
    /\ antiCheat.actions[acret.playerId].violations # <<>>
    /\ antiCheat.actions[acret.playerId].invalidActionCount > 0

\* the action suspicionScore of every player is 0, whatever was recorded, and
\* so is the actions component of every score
ActionScoreStaysZero ==
    /\ \A p \in DOMAIN antiCheat.actions : antiCheat.actions[p].suspicionScore = 0
    /\ \A p \in DOMAIN antiCheat.playerScores :
          antiCheat.playerScores[p].components.actions = 0

----------------------------------------------------------------------------
(* antiCheat/telemetry.js: the attacks of one player and their analysis *)

MaxAttacks == 18
MaxPauses == 2
TelPlayer == "p1"
\* the times between two attacks: a timer's, one that is more than
\* PERFECT_INTERVAL_TOLERANCE longer, and a pause
AttackGaps == {50, 56, 600}
TimerGap == Earliest(AttackGaps)

TelData == TelemetryData(antiCheat.telemetry, TelPlayer, now)

\* recordAttack(playerId, Date.now()), gap after the clock's last reading; a gap
\* other than the timer's happens MaxPauses times at most
TelAttack(gap) ==
    /\ acCalls < MaxAttacks
    /\ gap # TimerGap => ticks < MaxPauses
    /\ ticks' = IF gap # TimerGap THEN ticks + 1 ELSE ticks
    /\ acCalls' = acCalls + 1
    /\ now' = now + gap
    /\ antiCheat' = [antiCheat EXCEPT
                       !.telemetry = TelemetryRecordAttack(@, TelPlayer, now', now')]
    /\ acret' = [op |-> "recordAttack", playerId |-> TelPlayer]
    /\ UNCHANGED <<tbVars, rlVars, sessVars, pvVars, chVars, decays, nextDecay, banHistory>>

\* a second passes in which the player does not attack
TelWait ==
    /\ ticks < MaxPauses
    /\ ticks' = ticks + 1
    /\ now' = now + MsPerSecond
    /\ UNCHANGED <<tbVars, rlVars, sessVars, pvVars, chVars, acVars>>

\* telemetry.analyzePlayer(playerId)
TelAnalyze ==
    /\ acret.op # "analyzePlayer"
    /\ \E r \in {TelemetryAnalyzePlayer(antiCheat.telemetry, TelPlayer, now)} :
          /\ antiCheat' = [antiCheat EXCEPT !.telemetry = r.map]
          /\ acret' = [op |-> "analyzePlayer", playerId |-> TelPlayer, result |-> r.results]
    /\ UNCHANGED <<now, ticks, tbVars, rlVars, sessVars, pvVars, chVars, acCalls, decays,
                   nextDecay, banHistory>>

NextTel ==
    \/ \E gap \in AttackGaps : TelAttack(gap)
    \/ TelWait
    \/ TelAnalyze

SpecTel == InitAcBans /\ [][NextTel]_vars

Flagged(type) == \E i \in DOMAIN acret.result.violations : acret.result.violations[i] = type

\* the last 8 attack intervals are all within 5 ms of the first of them
LastEightPerfect ==
    /\ Len(TelData.attackTimings) >= PERFECT_INTERVAL_COUNT_THRESHOLD
    /\ \A i \in (Len(TelData.attackTimings) - PERFECT_INTERVAL_COUNT_THRESHOLD + 1)
                   ..Len(TelData.attackTimings) :
          Abs(TelData.attackTimings[i]
              - TelData.attackTimings[Len(TelData.attackTimings)
                                        - PERFECT_INTERVAL_COUNT_THRESHOLD + 1])
             <= PERFECT_INTERVAL_TOLERANCE

\* C32: when the last 8 attack intervals of a player are all within 5 ms of the
\* first of them, analyzePlayer reports PERFECT_ATTACK_INTERVALS and its score
\* holds the 30 of that finding, as soon as there are 8 intervals
PerfectAttacksFlagged ==
    (acret.op = "analyzePlayer" /\ LastEightPerfect) =>
        /\ Flagged("PERFECT_ATTACK_INTERVALS")
        /\ acret.result.suspicionScore >= 30

\* 8 or 9 intervals of 50 ms have been analyzed and nothing is reported
EightPerfectUnflagged ==
    /\ acret.op = "analyzePlayer"
    /\ LastEightPerfect
    /\ Len(TelData.attackTimings) < MIN_TIMING_SAMPLES
    /\ acret.result.violations = <<>>
    /\ acret.result.suspicionScore = 0

\* from MIN_TIMING_SAMPLES intervals on the finding is made, and below it no
\* finding about the intervals is made
PerfectAttacksFlaggedFromTen ==
    acret.op = "analyzePlayer" =>
        /\ (LastEightPerfect /\ Len(TelData.attackTimings) >= MIN_TIMING_SAMPLES) =>
              Flagged("PERFECT_ATTACK_INTERVALS") /\ acret.result.suspicionScore >= 30
        /\ Len(TelData.attackTimings) < MIN_TIMING_SAMPLES =>
              ~Flagged("PERFECT_ATTACK_INTERVALS") /\ ~Flagged("CONSISTENT_ATTACK_TIMING")
        /\ ~LastEightPerfect => ~Flagged("PERFECT_ATTACK_INTERVALS")

\* the times of the attacks recorded, from the time of the last one and the
\* intervals kept, and how many of them lie in the second that ends at t
AttackTime(data, k) ==
    data.lastAttackTime - SeqSum(SubSeq(data.attackTimings, k, Len(data.attackTimings)))
AttacksInLastSecond(data, t) ==
    IF data.lastAttackTime = 0 THEN 0
    ELSE Cardinality({k \in 1..(Len(data.attackTimings) + 1) :
                         t - AttackTime(data, k) < MsPerSecond})

\* C33: analyzePlayer reports EXCESSIVE_ATTACK_RATE exactly when more than 15
\* attacks of the player were recorded within the second that ends now
RateFlaggedInLastSecond ==
    acret.op = "analyzePlayer" =>
        (Flagged("EXCESSIVE_ATTACK_RATE")
            <=> AttacksInLastSecond(TelData, now) > MAX_ATTACKS_PER_SECOND)

\* more than 15 attacks within the last second, on both sides of the end of a
\* window, and no report
BurstAcrossWindowsMissed ==
    /\ acret.op = "analyzePlayer"
    /\ AttacksInLastSecond(TelData, now) > MAX_ATTACKS_PER_SECOND
    /\ ~Flagged("EXCESSIVE_ATTACK_RATE")

\* a report although the player has not attacked for a second
RateFlaggedAfterRest ==
    /\ acret.op = "analyzePlayer"
    /\ AttacksInLastSecond(TelData, now) = 0
    /\ Flagged("EXCESSIVE_ATTACK_RATE")

\* what is reported is the count of the window the last attack fell in: the
\* windows follow one another from the first attack on, and a window ends only
\* when an attack is recorded a second or more after its start
RateFollowsWindowCount ==
    acret.op = "analyzePlayer" =>
        /\ Flagged("EXCESSIVE_ATTACK_RATE") <=> TelData.attacksInWindow > MAX_ATTACKS_PER_SECOND
        /\ TelData.lastAttackTime # 0 =>
              /\ TelData.windowStart <= TelData.lastAttackTime
              /\ TelData.lastAttackTime - TelData.windowStart < MsPerSecond
              /\ TelData.attacksInWindow
                    = Cardinality({k \in 1..(Len(TelData.attackTimings) + 1) :
                                      AttackTime(TelData, k) >= TelData.windowStart})

----------------------------------------------------------------------------
(* antiCheat/movement.js: the moves of one connection *)

MaxMoves == 7
MovePlayer == "p1"
\* 50 ms, the time between two moves
MoveGap == MsPerSecond \div 20
\* the steps a player asks for, as the distance from the last position and the
\* delta: a step within the allowed 65, one above twice the allowed, one above
\* the teleport threshold of 525, and one whose delta is 0
MoveSteps == {<<10, 6250>>, <<140, 6250>>, <<600, 6250>>, <<140, 0>>}

MoveData == MovementData(antiCheat.movement, MovePlayer)

\* antiCheat.validateMovement(player, newX, newY, delta), MoveGap after the
\* call before
MoveCall(step) ==
    /\ acCalls < MaxMoves
    /\ acCalls' = acCalls + 1
    /\ now' = now + MoveGap
    /\ \E r \in {ValidateMovement(antiCheat.movement, PlainPlayer(MovePlayer),
                                  (IF MoveData.lastPosition = NoPosition THEN 0
                                   ELSE MoveData.lastPosition.x) + step[1],
                                  0, step[2], now')} :
          /\ antiCheat' = [antiCheat EXCEPT !.movement = r.map]
          /\ acret' = [op |-> "validateMovement", playerId |-> MovePlayer,
                       result |-> r.results,
                       speedViolationCount |-> MoveData.speedViolationCount]
    /\ UNCHANGED <<ticks, tbVars, rlVars, sessVars, pvVars, chVars, decays, nextDecay,
                   banHistory>>

\* the connection is closed and the player connects again: removePlayer
MoveReconnect ==
    /\ ticks < MaxAcTicks
    /\ ticks' = ticks + 1
    /\ MovePlayer \in DOMAIN antiCheat.movement
    /\ antiCheat' = ControllerRemovePlayer(antiCheat, MovePlayer)
    /\ acret' = [op |-> "removePlayer", playerId |-> MovePlayer]
    /\ UNCHANGED <<now, tbVars, rlVars, sessVars, pvVars, chVars, acCalls, decays, nextDecay,
                   banHistory>>

NextMove ==
    \/ \E step \in MoveSteps : MoveCall(step)
    \/ MoveReconnect

SpecMove == InitAcBans /\ [][NextMove]_vars

MoveFlagged(type) ==
    \E i \in DOMAIN acret.result.violations : acret.result.violations[i] = type

\* C34: a call of validateMovement that finds a SPEED_HACK raises the
\* connection's count of speed violations by one and scores it; the move is
\* rejected exactly when a teleport is flagged or the SPEED_HACK is the fifth
\* or a later one of the connection
SpeedRejectedFromFifth ==
    acret.op = "validateMovement" =>
        /\ MoveData.speedViolationCount
              = acret.speedViolationCount + (IF MoveFlagged("SPEED_HACK") THEN 1 ELSE 0)
        /\ MoveFlagged("SPEED_HACK") => acret.result.suspicionScore > 0
        /\ acret.result.valid
              <=> /\ ~MoveFlagged("TELEPORTATION")
                  /\ ~(MoveFlagged("SPEED_HACK") /\ MoveData.speedViolationCount >= 5)

\* the fifth speed violation of a connection, no teleport among its moves, is
\* rejected after four that were scored only
SpeedRejectedFromFifthWitness ==
    /\ acret.op = "validateMovement"
    /\ MoveFlagged("SPEED_HACK")
    /\ ~MoveFlagged("TELEPORTATION")
    /\ MoveData.speedViolationCount = 5
    /\ MoveData.teleportCount = 0
    /\ ~acret.result.valid

\* the fourth speed violation is scored and the move is let through
FourthSpeedViolationScored ==
    /\ acret.op = "validateMovement"
    /\ MoveFlagged("SPEED_HACK")
    /\ MoveData.speedViolationCount = 4
    /\ acret.result.valid
    /\ acret.result.suspicionScore > 0

----------------------------------------------------------------------------
(* The lengths of the lists the analyzers keep *)

MaxAsks == 17
MaxBeats == 1

\* antiCheat.updatePlayerScore(playerId), any number of milliseconds after the
\* call before
ListAsk ==
    /\ acCalls < MaxAsks
    /\ acCalls' = acCalls + 1
    /\ antiCheat' = UpdatePlayerScore(antiCheat, QuietPlayer, now)
    /\ acret' = [op |-> "updatePlayerScore", playerId |-> QuietPlayer]
    /\ UNCHANGED <<now, ticks, tbVars, rlVars, sessVars, pvVars, chVars, decays, nextDecay,
                   banHistory>>

\* antiCheat.processHeartbeat(playerId, heartbeatData)
ListBeat(heartbeatData) ==
    /\ ticks < MaxBeats
    /\ ticks' = ticks + 1
    /\ \E r \in {ProcessHeartbeat(antiCheat.activity, QuietPlayer, heartbeatData, now)} :
          /\ antiCheat' = [antiCheat EXCEPT !.activity = r.map]
          /\ acret' = [op |-> "processHeartbeat", playerId |-> QuietPlayer,
                       result |-> r.results]
    /\ UNCHANGED <<now, tbVars, rlVars, sessVars, pvVars, chVars, acCalls, decays, nextDecay,
                   banHistory>>

NextLists ==
    \/ ListAsk
    \/ \E heartbeatData \in Heartbeats : ListBeat(heartbeatData)

SpecLists == InitAC /\ [][NextLists]_vars

\* the lists of the telemetry analyzer, the movement validator, the action
\* validator and the controller are within their lengths
OtherListsBounded ==
    /\ \A p \in DOMAIN antiCheat.telemetry :
          /\ Len(antiCheat.telemetry[p].inputTimings) <= TIMING_HISTORY_SIZE
          /\ Len(antiCheat.telemetry[p].attackTimings) <= TIMING_HISTORY_SIZE
    /\ \A p \in DOMAIN antiCheat.movement :
          /\ Len(antiCheat.movement[p].positionHistory) <= POSITION_HISTORY_SIZE
          /\ Len(antiCheat.movement[p].speedHistory) <= MAX_SPEED_SAMPLES
          /\ Len(antiCheat.movement[p].violations) <= 50
    /\ \A p \in DOMAIN antiCheat.activity :
          /\ Len(antiCheat.activity[p].heartbeats) <= 20
          /\ Len(antiCheat.activity[p].allClickPatterns) <= 100
    /\ \A p \in DOMAIN antiCheat.actions : Len(antiCheat.actions[p].violations) <= 50
    /\ Len(antiCheat.detectionLogs) <= LOG_RETENTION_COUNT

\* C35: every list the analyzers keep for a player is within its fixed length
\* in every state: the intervals 50, the positions 20, the speeds 10, the
\* heartbeats 20, the click timestamps 100, the violations of the activity
\* monitor 30 and of the movement and action validators 50, the detection
\* log 100
ListsBounded ==
    /\ OtherListsBounded
    /\ \A p \in DOMAIN antiCheat.activity : Len(antiCheat.activity[p].violations) <= 30

\* the activity monitor holds more than 30 violations of a player whose score
\* was asked for, and every call adds to them
ActivityViolationsGrow ==
    /\ acret.op = "updatePlayerScore"
    /\ Len(antiCheat.activity[acret.playerId].violations) > 30
    /\ Len(antiCheat.activity[acret.playerId].violations) >= 2 * acCalls

----------------------------------------------------------------------------
(* antiCheat/index.js: what unbanPlayer removes *)

\* C36: after unbanPlayer(playerId), isBanned is false for the player and,
\* when no other player's ban is recorded, for the address the player was
\* banned with
UnbanRemovesEveryRecord ==
    (acret.op = "unbanPlayer" /\ acret.key \in AcPlayers) =>
        /\ ~ControllerIsBanned(antiCheat, acret.key, now).result
        /\ (\A q \in AcPlayers : q \notin DOMAIN antiCheat.bannedPlayers) =>
              ~ControllerIsBanned(antiCheat, AddrOf(acret.key), now).result

\* a player has been pardoned and the record of the player's address is still
\* there, with the player's name in it
AddressStaysBanned ==
    /\ acret.op = "unbanPlayer"
    /\ acret.key \in AcPlayers
    /\ \A q \in AcPlayers : q \notin DOMAIN antiCheat.bannedPlayers
    /\ IpKey(AddrOf(acret.key)) \in DOMAIN antiCheat.bannedPlayers
    /\ antiCheat.bannedPlayers[IpKey(AddrOf(acret.key))].playerId = acret.key
    /\ ControllerIsBanned(antiCheat, AddrOf(acret.key), now).result

\* unbanPlayer(x) removes the records stored under x and under "ip:" + x, and
\* no other
UnbanRemovesTheKeys ==
    acret.op = "unbanPlayer" =>
        /\ acret.key \notin DOMAIN antiCheat.bannedPlayers
        /\ IpKey(acret.key) \notin DOMAIN antiCheat.bannedPlayers
        /\ ~ControllerIsBanned(antiCheat, acret.key, now).result

----------------------------------------------------------------------------
(* rateLimiter.js: what a rejected call leaves behind *)

MaxOtherCalls == 1
MaxRejTicks == 1
\* one violation more than the BAN threshold
MaxRejViolations == 51
\* a second connection from the address of the first
OtherPlayer == CHOOSE c \in ConnIds : c # EscPlayer
OtherCalls == IF "others" \in DOMAIN mret THEN mret.others ELSE 0
Rejections == {"IP banned", "Player banned", "Player frozen"}

\* rateLimiter.checkLimit(playerId, EscAddr, "M"): the first connection calls
\* up to MaxRejViolations violations, the second MaxOtherCalls times
RejCheck(playerId) ==
    /\ playerId = EscPlayer =>
          (EscPlayer \in DOMAIN players => players[EscPlayer].violations < MaxRejViolations)
    /\ playerId # EscPlayer => OtherCalls < MaxOtherCalls
    /\ \E r \in {CheckLimit(players, ipBans, playerId, EscAddr, "M", now)} :
          /\ players' = r.players
          /\ ipBans' = r.ipBans
          /\ mret' = [op |-> "checkLimit", playerId |-> playerId, ret |-> r.ret, at |-> now,
                      players |-> players, ipBans |-> ipBans,
                      others |-> OtherCalls + (IF playerId # EscPlayer THEN 1 ELSE 0)]
    /\ UNCHANGED <<now, ticks, tbVars, sessVars, pvVars, acVars, handlers, loginAttempts,
                   userWebSocketMap, grants, conns, accepted, vcount, vlast, vnogap,
                   vlevel, vprev, vaction, vfirst, banLog>>

\* a second passes, at most MaxRejTicks times
RejTick ==
    /\ ticks < MaxRejTicks
    /\ ticks' = ticks + 1
    /\ now' = now + MsPerSecond
    /\ UNCHANGED <<tbVars, rlVars, sessVars, pvVars, acVars, chVars>>

\* the first connection waits until its freeze is over
RejThaw ==
    /\ EscPlayer \in DOMAIN players
    /\ IsFrozen(players[EscPlayer], now) /\ ~IsBanned(players[EscPlayer], now)
    /\ now' = players[EscPlayer].freezeUntil
    /\ UNCHANGED <<ticks, tbVars, rlVars, sessVars, pvVars, acVars, chVars>>

NextReject ==
    \/ \E playerId \in {EscPlayer, OtherPlayer} : RejCheck(playerId)
    \/ RejThaw
    \/ RejTick

SpecReject == InitRL /\ [][NextReject]_vars

RejectedCall == mret.op = "checkLimit" /\ mret.ret.reason \in Rejections

\* a rejected call left the connection's violations, lastViolation,
\* escalationLevel, freezeUntil, bannedUntil and buckets as they were
RejectionKeepsPenalties ==
    RejectedCall =>
        /\ DOMAIN players = DOMAIN mret.players
        /\ \A p \in DOMAIN players :
              /\ players[p].violations = mret.players[p].violations
              /\ players[p].lastViolation = mret.players[p].lastViolation
              /\ players[p].escalationLevel = mret.players[p].escalationLevel
              /\ players[p].freezeUntil = mret.players[p].freezeUntil
              /\ players[p].bannedUntil = mret.players[p].bannedUntil
              /\ players[p].buckets = mret.players[p].buckets

\* C37 as stated: a checkLimit call rejected for an IP ban, a connection ban or
\* a freeze leaves the penalties and the buckets of the connection as they were
\* and changes nothing else of the limiter's players and bans
RejectionChangesNothing ==
    /\ RejectionKeepsPenalties
    /\ RejectedCall => (players = mret.players /\ ipBans = mret.ipBans)

\* C37: a rejected call leaves the penalties and the buckets of every
\* connection as they were and creates no state; a rejection for an IP ban
\* changes nothing of the players and the bans, a rejection for a connection
\* ban or a freeze sets the lastActivity of the connection to the time of the
\* call and changes nothing else
RejectionTouchesActivity ==
    /\ RejectionKeepsPenalties
    /\ RejectedCall =>
          /\ ipBans = mret.ipBans
          /\ mret.ret.reason = "IP banned" => players = mret.players
          /\ mret.ret.reason # "IP banned" =>
                players = [mret.players EXCEPT ![mret.playerId].lastActivity = mret.at]

\* a call rejected for a freeze, a second after the call before, has moved
\* lastActivity
RejectionTouchesActivityWitness ==
    /\ RejectedCall
    /\ mret.ret.reason = "Player frozen"
    /\ players[mret.playerId].lastActivity = mret.at
    /\ mret.players[mret.playerId].lastActivity < mret.at
    /\ players[mret.playerId].buckets # EmptyMap

\* a call of the second connection rejected for the IP ban of the first, for
\* which no state is made
OtherRejectedForIpBan ==
    /\ RejectedCall
    /\ mret.ret.reason = "IP banned"
    /\ mret.playerId = OtherPlayer
    /\ OtherPlayer \notin DOMAIN players

----------------------------------------------------------------------------
(* sessionStore.js: the token table and the index of tokens by user *)

\* the users in whose set the token is
OwnersOf(token) == {userId \in DOMAIN userSessionMap : token \in userSessionMap[userId]}

\* C38: in every state the store reaches by createSession, validateSession,
\* refreshSession, invalidateSession, invalidateUserSessions and
\* cleanupExpiredSessions, a token is stored in sessions exactly when it is in the
\* set userSessionMap holds for the userId of its session, no user has an empty
\* set, and no token is in the sets of two users
TablesAgree ==
    /\ \A token \in DOMAIN sessions : OwnersOf(token) = {sessions[token].userId}
    /\ \A userId \in DOMAIN userSessionMap :
          /\ userSessionMap[userId] # {}
          /\ \A token \in userSessionMap[userId] :
                token \in DOMAIN sessions /\ sessions[token].userId = userId
    /\ \A token \in TokenIds : Cardinality(OwnersOf(token)) <= 1

\* a cleanup took expired sessions out, among them the last one of some user,
\* while another user keeps a session
TablesAgreeWitness ==
    /\ sret.op = "cleanupExpiredSessions"
    /\ sret.count > 0
    /\ \E userId \in {issuedTo[i] : i \in Issued} : userId \notin DOMAIN userSessionMap
    /\ userSessionMap # EmptyMap

\* the last session of a user was taken out by invalidateSession, called by
\* validateSession on an expired token
LastSessionExpired ==
    /\ sret.op = "validateSession"
    /\ ~sret.ok
    /\ sret.reason = "Session expired (idle timeout)"
    /\ issuedTo[sret.token] \notin DOMAIN userSessionMap
    /\ sessions # EmptyMap

----------------------------------------------------------------------------
(* antiCheat/index.js: the largest total a player can draw *)

\* n moves between x = 100 and x = 700, 50 ms apart, each of them a teleport at
\* more than three times the allowed speed
Leaps(playerId, n, last) ==
    [i \in 1..n |-> [op |-> "validateMovement", playerId |-> playerId,
                     at |-> last - (n - i) * 50,
                     x |-> IF (n - i) % 2 = 0 THEN 700 ELSE 100, delta |-> 6250]]

\* What draws every finding of the telemetry analyzer, the movement validator and
\* the activity monitor at once: steady inputs, steady leaps, a keyboard and a
\* clicker without a mouse, and 24 steady attacks within one second
CheaterScript ==
    Burst("recordInput", "p1", 11, StartTime - 4000, 100, 0)
       \o Leaps("p1", 11, StartTime - 3000)
       \o Burst("recordGameplayAction", "p1", 11, StartTime - 2000, 10, 0)
       \o Beats("p1", 4, StartTime - 1500, IdleHeartbeat)
       \o Beats("p1", 1, StartTime - 1000, ClickerHeartbeat)
       \o Burst("recordAttack", "p1", 24, StartTime, 40, 0)

\* A controller that has seen the cheater
InitCheater ==
    /\ now = StartTime
    /\ ticks = 0
    /\ InitIdleBucket
    /\ InitLimiter
    /\ InitStore
    /\ InitValidator
    /\ InitHandlers
    /\ antiCheat = Replay(NewAntiCheat, CheaterScript)
    /\ acret = NoCall
    /\ acCalls = 0
    /\ decays = 0
    /\ nextDecay = StartTime + SUSPICION_DECAY_INTERVAL
    /\ banHistory = {}

SpecCheater == InitCheater /\ [][NextAC]_vars

\* checkAndEnforce has just answered for a player whose analyzers return every
\* finding they have, and who has a violation recorded by the action validator
EveryFindingDrawn ==
    /\ Enforced
    /\ acret.playerId \in DOMAIN antiCheat.actions
    /\ antiCheat.actions[acret.playerId].violations # <<>>
    /\ LET components == antiCheat.playerScores[acret.playerId].components
       IN /\ components.telemetry = Points(30 + 25 + 35 + 30 + 40)
          /\ components.movement = Points(15 + 40 + 30)
          /\ components.activity = Points(20 + 25 + 30 + 15 + 10)

\* C39 as stated: the recorded calls of one player that draw every finding lead
\* to a total of at least 90 and to the action BAN of checkAndEnforce
CheaterIsBanned ==
    EveryFindingDrawn =>
       /\ acret.result.score >= Points(SUSPICION_THRESHOLDS.BAN)
       /\ acret.result.action = "BAN"

\* the player with every finding is kicked, at a total of 89.25
CheaterIsKicked ==
    /\ EveryFindingDrawn
    /\ 4 * acret.result.score = Points(357)
    /\ acret.result.action = "KICK"

\* what holds instead: no stored total reaches 90 and no checkAndEnforce returns
\* BAN, since telemetry stays within 160, movement within 85, activity within
\* 100 and actions at 0
BanOutOfReach ==
    /\ \A playerId \in DOMAIN antiCheat.playerScores :
          LET score == antiCheat.playerScores[playerId]
          IN /\ score.components.telemetry <= Points(160)
             /\ score.components.movement <= Points(85)
             /\ score.components.activity <= Points(100)
             /\ score.components.actions = 0
             /\ 4 * score.total <= Points(357)
    /\ Enforced => acret.result.action # "BAN"
    /\ antiCheat.bannedPlayers = EmptyMap

----------------------------------------------------------------------------
(* index.js: the heartbeats a client reports *)

\* ["INPUT_HEARTBEAT", [mouseMovements, keystrokes, clickPatterns]]
HeartbeatMessage(mouseMovements, keystrokes) ==
    [size |-> 30,
     decoded |-> JsArray(<<JsString("INPUT_HEARTBEAT"),
                           JsArray(<<JsNumber(mouseMovements), JsNumber(keystrokes),
                                     JsArray(<<>>)>>)>>)]

HeartbeatMessages == {HeartbeatMessage(5, 0), HeartbeatMessage(0, 1)}

\* what the client of a game sends: heartbeats, moves and spawn requests
BeatMessages ==
    HeartbeatMessages
       \cup {[size |-> 10, decoded |-> JsArray(<<JsString("9"), JsArray(<<JsNumber(1)>>)>>)],
             Spawn}

NextBeat ==
    \/ \E c \in HandlerConns, addr \in ConnAddrs : Accept(c, addr, 0)
    \/ \E c \in HandlerConns, msg \in BeatMessages, alive \in BOOLEAN :
          OnMessage(c, msg, alive)
    \/ \E c \in HandlerConns : OnClose(c)
    \/ \E target \in {handlers[c].nextCheck : c \in Checking} : ConnTick(target)

SpecBeat == InitConn /\ [][NextBeat]_vars

\* the heartbeats the Activity Monitor holds of player c
Heard(ac, c) == IF c \in DOMAIN ac.activity THEN Len(ac.activity[c].heartbeats) ELSE 0

\* C40: whenever the message handler handles a well-formed INPUT_HEARTBEAT
\* message of a live player and the rate limiter allows it, the message passes
\* packet validation, reaches the switch, and processHeartbeat records the
\* heartbeat with the Activity Monitor
HeartbeatReachesMonitor ==
    [][\A c \in HandlerConns, msg \in HeartbeatMessages :
          (OnMessage(c, msg, TRUE) /\ mret'.allowed) =>
              /\ mret'.valid
              /\ mret'.dispatched
              /\ Heard(antiCheat', c) = Heard(antiCheat, c) + 1]_vars

\* a message the rate limiter allowed has just failed packet validation as an
\* INPUT_HEARTBEAT, and has not reached the switch
HeartbeatRejected ==
    /\ mret.op = "message"
    /\ mret.allowed
    /\ ~mret.valid
    /\ ~mret.dispatched
    /\ mret.end = "invalid"
    /\ HasCounts(validationStats.byOpcode, "INPUT_HEARTBEAT")
    /\ validationStats.byOpcode["INPUT_HEARTBEAT"].failed = validationStats.failed

\* what holds instead: the Activity Monitor never holds a heartbeat, and no
\* INPUT_HEARTBEAT packet is ever counted as passed
NoHeartbeatHeard ==
    /\ \A c \in HandlerConns : Heard(antiCheat, c) = 0
    /\ HasCounts(validationStats.byOpcode, "INPUT_HEARTBEAT") =>
          validationStats.byOpcode["INPUT_HEARTBEAT"].passed = 0

====
